---- MODULE Spec2Model ----
(***************************************************************************)
(* A model of the image-tag repository scanner of jupyterhubutils          *)
(* (scanrepo/scanrepo.py, class ScanRepo): the cache file read by the      *)
(* constructor, the paginated tag listing of scan(), the reconciliation of *)
(* manifest digests against the cache (_map_names_to_manifests), and the   *)
(* classification, description and ordering of tags (_reduce_results,      *)
(* _describe_tag, _sort_images_by_name); and of its prepuller              *)
(* (prepuller/prepuller.py, class Prepuller): the pod specs per node, the  *)
(* thread per node that runs them one after the other, and the pods of     *)
(* the namespace they create, poll and delete.                             *)
(***************************************************************************)
EXTENDS Integers, Sequences, FiniteSets, TLC

None == "None"

(***************************************************************************)
(* Strings.  A Python str is a sequence of one-character strings.          *)
(***************************************************************************)
Range(s) == {s[i] : i \in 1..Len(s)}

Digits == <<"0", "1", "2", "3", "4", "5", "6", "7", "8", "9">>

IsDigit(c) == c \in Range(Digits)

DigitVal(c) == (CHOOSE i \in 1..10 : Digits[i] = c) - 1

\* The characters of the model, in code-point order (str comparison).
Alphabet ==
    <<" ", "(", ")", "-", ".", "/",
      "0", "1", "2", "3", "4", "5", "6", "7", "8", "9", ":",
      "D", "E", "L", "R", "W", "Z", "_",
      "a", "b", "c", "d", "e", "f", "g", "h", "i", "j", "k", "l", "m",
      "n", "o", "p", "q", "r", "s", "t", "u", "v", "w", "x", "y", "z">>

Ord(c) == CHOOSE i \in 1..Len(Alphabet) : Alphabet[i] = c

\* a < b for two str values (lexicographic, by code point).
RECURSIVE StrLess(_, _)
StrLess(a, b) ==
    IF b = <<>> THEN FALSE
    ELSE IF a = <<>> THEN TRUE
    ELSE IF Ord(Head(a)) < Ord(Head(b)) THEN TRUE
    ELSE IF Ord(Head(a)) > Ord(Head(b)) THEN FALSE
    ELSE StrLess(Tail(a), Tail(b))

\* s.startswith(p)
StartsWith(s, p) == Len(s) >= Len(p) /\ SubSeq(s, 1, Len(p)) = p

\* s[a:b] with 0-based bounds, clamped as Python clamps a slice.
Slice(s, a, b) ==
    LET hi == IF b > Len(s) THEN Len(s) ELSE b
    IN  IF a >= hi THEN <<>> ELSE SubSeq(s, a + 1, hi)

\* s[a:]
SliceFrom(s, a) == Slice(s, a, Len(s))

\* s.find(c) != -1
Contains(s, c) == c \in Range(s)

\* s.split(sep) for a one-character separator.
RECURSIVE SplitAcc(_, _, _)
SplitAcc(s, sep, cur) ==
    IF s = <<>> THEN <<cur>>
    ELSE IF Head(s) = sep THEN <<cur>> \o SplitAcc(Tail(s), sep, <<>>)
    ELSE SplitAcc(Tail(s), sep, Append(cur, Head(s)))

Split(s, sep) == SplitAcc(s, sep, <<>>)

\* sep.join(parts)
RECURSIVE Join(_, _)
Join(parts, sep) ==
    IF parts = <<>> THEN <<>>
    ELSE IF Len(parts) = 1 THEN parts[1]
    ELSE parts[1] \o <<sep>> \o Join(Tail(parts), sep)

\* The match of re.search(r'\d+$', s): the longest run of digits ending s,
\* <<>> when there is no match.
RECURSIVE TrailingDigits(_)
TrailingDigits(s) ==
    IF s = <<>> \/ ~IsDigit(s[Len(s)]) THEN <<>>
    ELSE Append(TrailingDigits(SubSeq(s, 1, Len(s) - 1)), s[Len(s)])

\* int(s) succeeds (no ValueError): a non-empty run of digits.
IsInt(s) == s # <<>> /\ \A i \in 1..Len(s) : IsDigit(s[i])

RECURSIVE ParseInt(_)
ParseInt(s) ==
    IF s = <<>> THEN 0
    ELSE 10 * ParseInt(SubSeq(s, 1, Len(s) - 1)) + DigitVal(s[Len(s)])

\* str(n) for n >= 0
RECURSIVE IntToStr(_)
IntToStr(n) ==
    IF n < 10 THEN <<Digits[n + 1]>>
    ELSE Append(IntToStr(n \div 10), Digits[(n % 10) + 1])

\* c.upper() for the letters a tag can start with.
Upper(c) ==
    CASE c = "r" -> "R"
      [] c = "l" -> "L"
      [] c = "d" -> "D"
      [] c = "e" -> "E"
      [] c = "w" -> "W"
      [] OTHER -> c

(***************************************************************************)
(* Tag names.  A tag is named by a TLA+ string; TagChars gives its         *)
(* characters.                                                             *)
(***************************************************************************)
TagChars ==
    ("recommended" :> <<"r", "e", "c", "o", "m", "m", "e", "n", "d", "e", "d">>) @@
    ("latest" :> <<"l", "a", "t", "e", "s", "t">>) @@
    ("latest_weekly" :> <<"l", "a", "t", "e", "s", "t", "_", "w", "e", "e", "k", "l", "y">>) @@
    ("r21_0_1" :> <<"r", "2", "1", "_", "0", "_", "1">>) @@
    ("r170" :> <<"r", "1", "7", "0">>) @@
    ("r170rc1" :> <<"r", "1", "7", "0", "r", "c", "1">>) @@
    ("r_" :> <<"r", "_">>) @@
    ("r" :> <<"r">>) @@
    ("w_2021_05" :> <<"w", "_", "2", "0", "2", "1", "_", "0", "5">>) @@
    ("w_2021_05_0" :> <<"w", "_", "2", "0", "2", "1", "_", "0", "5", "_", "0">>) @@
    ("w_2021" :> <<"w", "_", "2", "0", "2", "1">>) @@
    ("w202105" :> <<"w", "2", "0", "2", "1", "0", "5">>) @@
    ("d_2021_05_01" :> <<"d", "_", "2", "0", "2", "1", "_", "0", "5", "_", "0", "1">>) @@
    ("d20210501" :> <<"d", "2", "0", "2", "1", "0", "5", "0", "1">>) @@
    ("exp_w_2021_05" :> <<"e", "x", "p", "_", "w", "_", "2", "0", "2", "1", "_", "0", "5">>) @@
    ("e2020" :> <<"e", "2", "0", "2", "0">>) @@
    ("x" :> <<"x">>) @@
    ("" :> <<>>)

AllTags == DOMAIN TagChars

Chars(tag) == TagChars[tag]

S_recommended == Chars("recommended")
S_latest == Chars("latest")
S_latest_ == Append(Chars("latest"), "_")
S_exp == <<"e", "x", "p">>

\* tag.startswith("recommended") or tag.startswith("latest")
IsAlias(s) == StartsWith(s, S_recommended) \/ StartsWith(s, S_latest)

(***************************************************************************)
(* Timestamps.  A last_updated string is "<date>T<time>[.<fraction>][Z]":  *)
(* secs stands for the part down to the second, frac for the digits of    *)
(* the fraction as they are written (none: the string has no fraction),    *)
(* sfx for what follows ("Z", "" or, as "x", anything strptime does not    *)
(* accept).  A datetime is secs and microseconds.                          *)
(***************************************************************************)
TS(s, f, x) == [secs |-> s, frac |-> f, sfx |-> x]

DT(s, m) == [secs |-> s, micro |-> m]

\* _convert_time(ts) returns (strptime does not raise ValueError): both
\* formats require the fractional part, %f takes one to six digits.
ConvertOk(ts) == Len(ts.frac) \in 1..6 /\ ts.sfx \in {"Z", ""}

\* The microseconds %f makes of the digits: they are padded on the right.
Micro(f) == ParseInt(f \o [i \in 1..(6 - Len(f)) |-> "0"])

_convert_time(ts) == DT(ts.secs, Micro(ts.frac))

\* a < b, a <= b for datetimes
DtLess(a, b) == a.secs < b.secs \/ (a.secs = b.secs /\ a.micro < b.micro)

DtLeq(a, b) == a = b \/ DtLess(a, b)

\* str(datetime) writes six digits of fraction, and none when microsecond
\* is 0; "Z" is appended.
_serialize_datetime(dt) ==
    TS(dt.secs,
       IF dt.micro = 0 THEN <<>>
       ELSE [i \in 1..(6 - Len(IntToStr(dt.micro))) |-> "0"] \o IntToStr(dt.micro),
       "Z")

\* What a last_updated string holds after the seconds.
TsTail(ts) ==
    (IF ts.frac # <<>> THEN <<".">> \o ts.frac ELSE <<>>)
    \o (IF ts.sfx = "" THEN <<>> ELSE <<ts.sfx>>)

\* a < b for two last_updated strings compared as str: the date and time
\* have a fixed width, the rest compares character by character.
TsStrLess(a, b) ==
    a.secs < b.secs \/ (a.secs = b.secs /\ StrLess(TsTail(a), TsTail(b)))

(***************************************************************************)
(* Python dicts keep insertion order: keys is the order, val the values.   *)
(***************************************************************************)
EmptyDict == [keys |-> <<>>, val |-> <<>>]

DHas(d, k) == k \in Range(d.keys)

DGet(d, k) == d.val[k]

\* d[k] = v
DPut(d, k, v) ==
    IF DHas(d, k)
    THEN [d EXCEPT !.val = [x \in Range(d.keys) |-> IF x = k THEN v ELSE d.val[x]]]
    ELSE [keys |-> Append(d.keys, k),
          val  |-> [x \in Range(d.keys) \cup {k} |-> IF x = k THEN v ELSE d.val[x]]]

(***************************************************************************)
(* resolve_tag and _describe_tag                                           *)
(***************************************************************************)
\* A lookup that does not pass over the aliases, so that an alias can
\* resolve to itself, which C13 rules out.
resolve_tag_AnyKey(tag, nmv) ==
    IF ~DHas(nmv, tag) THEN None
    ELSE IF DGet(nmv, tag).hash = None THEN None
    ELSE nmv.keys[CHOOSE i \in 1..Len(nmv.keys) :
                     /\ DGet(nmv, nmv.keys[i]).hash = DGet(nmv, tag).hash
                     /\ \A j \in 1..(i - 1) :
                           DGet(nmv, nmv.keys[j]).hash # DGet(nmv, tag).hash]

\* resolve_tag(tag): the first key of _name_to_manifest, in dict order, that
\* is no alias and has the hash of tag; None when there is none.
resolve_tag(tag, nmv) ==
    IF ~DHas(nmv, tag) THEN None
    ELSE IF DGet(nmv, tag).hash = None THEN None
    ELSE LET h == DGet(nmv, tag).hash
             hit == {i \in 1..Len(nmv.keys) :
                        /\ ~IsAlias(Chars(nmv.keys[i]))
                        /\ DGet(nmv, nmv.keys[i]).hash = h}
         IN  IF hit = {} THEN None
             ELSE nmv.keys[CHOOSE i \in hit : \A j \in hit : i <= j]

L_Release == <<"R", "e", "l", "e", "a", "s", "e", " ">>
L_Weekly == <<"W", "e", "e", "k", "l", "y", " ">>
L_Daily == <<"D", "a", "i", "l", "y", " ">>
L_Experimental == <<"E", "x", "p", "e", "r", "i", "m", "e", "n", "t", "a", "l", " ">>

Described(ld) == [raised |-> None, ld |-> ld]

Raised(exc) == [raised |-> exc, ld |-> <<>>]

\* components after components.insert(1, mj): when the first component
\* ends in digits, they are inserted as a number after it.  The number is
\* kept as its str(), which is what "%s" and int() make of it.
InsertMajor(split) ==
    IF TrailingDigits(split[1]) # <<>>
    THEN <<split[1], IntToStr(ParseInt(TrailingDigits(split[1])))>> \o Tail(split)
    ELSE split

\* btype: the first component, cut to its first character when it ends in
\* digits.
BType(split) ==
    IF TrailingDigits(split[1]) # <<>> THEN <<split[1][1]>> ELSE split[1]

\* The new-style branch of _describe_tag for a tag that is no alias.
DescribeNew(tag, components, btype) ==
    CASE btype = <<"r">> ->
           IF Len(components) < 3 THEN Raised("IndexError")
           ELSE Described(
                    L_Release \o components[2] \o <<".">> \o components[3]
                    \o (IF Len(components) > 3 /\ components[4] # <<>>
                        THEN <<".">> \o components[4] ELSE <<>>)
                    \o (IF /\ Len(components) > 4
                           /\ Join(SubSeq(components, 5, Len(components)), "_") # <<>>
                        THEN <<"-">> \o Join(SubSeq(components, 5, Len(components)), "_")
                        ELSE <<>>))
      [] btype = <<"w">> ->
           IF Len(components) < 3 THEN Raised("IndexError")
           ELSE Described(L_Weekly \o components[2] \o <<"_">> \o components[3])
      [] btype = <<"d">> ->
           IF Len(components) < 4 THEN Raised("IndexError")
           ELSE Described(L_Daily \o components[2] \o <<"_">> \o components[3]
                          \o <<"_">> \o components[4])
      [] btype = S_exp ->
           Described(L_Experimental \o Join(Tail(components), "_"))
      [] OTHER -> Described(tag)

\* The old-style branch of _describe_tag for a tag that is no alias;
\* tag[0] of an empty name raises.
DescribeOld(tag) ==
    IF tag = <<>> THEN Raised("IndexError")
    ELSE CASE tag[1] = "r" ->
                Described(L_Release \o Slice(tag, 1, 3) \o <<".">> \o SliceFrom(tag, 3))
           [] tag[1] = "w" ->
                Described(L_Weekly \o Slice(tag, 1, 5) \o <<"_">> \o SliceFrom(tag, 5))
           [] tag[1] = "d" ->
                Described(L_Daily \o Slice(tag, 1, 5) \o <<"_">> \o Slice(tag, 5, 7)
                          \o <<"_">> \o SliceFrom(tag, 7))
           [] tag[1] = "e" ->
                Described(L_Experimental \o SliceFrom(tag, 1))
           [] OTHER -> Described(tag)

\* _describe_tag for a tag that is no alias.
DescribePlain(tag) ==
    IF Contains(tag, "_")
    THEN DescribeNew(tag, InsertMajor(Split(tag, "_")), BType(Split(tag, "_")))
    ELSE DescribeOld(tag)

\* The description of an alias: capitalised, then the description of the
\* tag it resolves to, if any.
DescribeAlias(tag, restag) ==
    IF restag = None THEN Described(<<Upper(tag[1])>> \o SliceFrom(tag, 1))
    ELSE IF DescribePlain(Chars(restag)).raised # None
    THEN DescribePlain(Chars(restag))
    ELSE Described(<<Upper(tag[1])>> \o SliceFrom(tag, 1) \o <<" ", "(">>
                   \o DescribePlain(Chars(restag)).ld \o <<")">>)

\* _describe_tag(tag)
_describe_tag(name, nmv) ==
    IF IsAlias(Chars(name))
    THEN DescribeAlias(Chars(name), resolve_tag(name, nmv))
    ELSE DescribePlain(Chars(name))

(***************************************************************************)
(* Sorting.  list.sort(reverse=True) is stable: it orders by descending    *)
(* key and keeps equal elements in their original order.                   *)
(***************************************************************************)
\* gt[a, b] says that a goes before b.
StableSortDesc(s, gt) ==
    LET pos(i) == Cardinality({j \in 1..Len(s) : gt[s[j], s[i]]})
                  + Cardinality({j \in 1..(i - 1) :
                                    ~gt[s[i], s[j]] /\ ~gt[s[j], s[i]]})
                  + 1
    IN  [k \in 1..Len(s) |-> s[CHOOSE i \in 1..Len(s) : pos(i) = k]]

\* Option values: <<>> is Python's None, <<v>> a value.
Some(v) == <<v>>

(***************************************************************************)
(* _sort_images_by_name                                                    *)
(***************************************************************************)
\* A name that goes to newstyle: it has an underscore and is no latest_X.
IsNewStyle(tag) == Contains(tag, "_") /\ ~StartsWith(tag, S_latest_)

\* components after the leading "exp" is popped.
DropExp(components) ==
    IF components[1] = S_exp THEN Tail(components) ELSE components

\* The version the loop body makes of the components:
\* [raised, major, minor, patch, prerelease, build].  int() raises
\* ValueError on a major or minor that is no number; a patch that is no
\* number becomes the prerelease.
SemverFrom(c) ==
    IF (Len(c) > 1 /\ ~IsInt(c[2])) \/ (Len(c) > 2 /\ ~IsInt(c[3]))
    THEN [raised |-> "ValueError", major |-> 0, minor |-> 0, patch |-> 0,
          prerelease |-> <<>>, build |-> <<>>]
    ELSE [raised |-> None,
          major |-> IF Len(c) > 1 THEN ParseInt(c[2]) ELSE 0,
          minor |-> IF Len(c) > 2 THEN ParseInt(c[3]) ELSE 0,
          patch |-> IF Len(c) > 3 /\ IsInt(c[4]) THEN ParseInt(c[4]) ELSE 0,
          prerelease |-> IF Len(c) > 4 THEN Some(c[5])
                         ELSE IF Len(c) > 3 /\ ~IsInt(c[4]) THEN Some(c[4])
                         ELSE <<>>,
          build |-> IF Len(c) > 5 THEN Some(Join(SubSeq(c, 6, Len(c)), "_"))
                    ELSE <<>>]

SemverOf(tag) == SemverFrom(DropExp(InsertMajor(Split(tag, "_"))))

\* An identifier semver's version pattern accepts: [0-9A-Za-z-]+, and no
\* leading zero on a number (prerelease only).
IdentChar(c) == c # "_" /\ c # "." /\ c # " " /\ c # "(" /\ c # ")"

ValidIdent(x, numeric) ==
    /\ x # <<>>
    /\ \A i \in 1..Len(x) : IdentChar(x[i])
    /\ (numeric /\ IsInt(x) /\ Len(x) > 1) => x[1] # "0"

\* semver.parse of the string format_version made does not raise.
SemverParses(v) ==
    /\ (v.prerelease # <<>> => ValidIdent(v.prerelease[1], TRUE))
    /\ (v.build # <<>> => ValidIdent(v.build[1], FALSE))

\* Prerelease precedence of semver: numbers by value and below names,
\* names as strings.
PreLess(a, b) ==
    IF IsInt(a) /\ IsInt(b) THEN ParseInt(a) < ParseInt(b)
    ELSE IF IsInt(a) THEN TRUE
    ELSE IF IsInt(b) THEN FALSE
    ELSE StrLess(a, b)

\* semver.compare(a, b) > 0: major, minor, patch, then the prerelease, a
\* version without one being the greater; the build is not compared.
SemverGt(a, b) ==
    \/ a.major > b.major
    \/ a.major = b.major /\ a.minor > b.minor
    \/ a.major = b.major /\ a.minor = b.minor /\ a.patch > b.patch
    \/ /\ a.major = b.major /\ a.minor = b.minor /\ a.patch = b.patch
       /\ \/ a.prerelease = <<>> /\ b.prerelease # <<>>
          \/ /\ a.prerelease # <<>> /\ b.prerelease # <<>>
             /\ PreLess(b.prerelease[1], a.prerelease[1])

NameGt(a, b) == StrLess(Chars(b), Chars(a))

\* The orders of the two sorts, on the elements S.
SemverOrder(S) == [a \in S, b \in S |-> SemverGt(a, b)]

NameOrder(S) == [a \in S, b \in S |-> NameGt(a, b)]

\* What the return statement yields: list.extend returns None.
ExtendResult(sorted_newstyle, oldstyle) == <<>>

\* The end of _sort_images_by_name: [raised, merged, ret].  merged is
\* sorted_newstyle after extend(oldstyle), the list the method built; ret
\* is what it returns, as an Option.
SortReturn(sorted_newstyle, oldstyle) ==
    [raised |-> None,
     merged |-> sorted_newstyle \o oldstyle,
     ret |-> ExtendResult(sorted_newstyle, oldstyle)]

\* The loop that rebuilds the images from the sorted versions: for each
\* version, the first image of newstyle that has it.
SortedNewstyle(newstyle, sv, seml) ==
    [k \in 1..Len(seml) |->
        newstyle[CHOOSE i \in 1..Len(newstyle) :
                    sv[i] = seml[k] /\ \A j \in 1..(i - 1) : sv[j] # seml[k]]]

\* _sort_images_by_name from the versions sv of newstyle on.  A component
\* int() rejects raises at once, a version semver cannot parse when two
\* versions are compared.
SortKeyed(oldstyle, newstyle, sv) ==
    IF \/ \E i \in 1..Len(sv) : sv[i].raised # None
       \/ Len(sv) > 1 /\ \E i \in 1..Len(sv) : ~SemverParses(sv[i])
    THEN [raised |-> "ValueError", merged |-> <<>>, ret |-> <<>>]
    ELSE SortReturn(SortedNewstyle(newstyle, sv,
                                   StableSortDesc(sv, SemverOrder(Range(sv)))),
                    StableSortDesc(oldstyle, NameOrder(Range(oldstyle))))

SortSplit(oldstyle, newstyle) ==
    SortKeyed(oldstyle, newstyle,
              [i \in 1..Len(newstyle) |-> SemverOf(Chars(newstyle[i]))])

\* _sort_images_by_name on the names of clist.
_sort_images_by_name(clist) ==
    SortSplit(SelectSeq(clist, LAMBDA t : ~IsNewStyle(Chars(t))),
              SelectSeq(clist, LAMBDA t : IsNewStyle(Chars(t))))

(***************************************************************************)
(* Bounds and inputs                                                       *)
(***************************************************************************)
\* scan() calls on one ScanRepo
MaxScans == 2
\* pages of one tag listing
MaxPages == 2

\* manifest digests (Docker-Content-Digest values)
Digests == {"sha_a", "sha_b"}

\* the last_updated strings a registry reports
RegTimes == {TS(1, <<"0">>, "Z"), TS(1, <<"0", "5">>, "Z")}

\* ScanRepo.__init__ defaults
DefaultConfig ==
    [experimentals |-> 0, dailies |-> 3, weeklies |-> 2, releases |-> 1,
     recommended |-> TRUE]

\* ScanRepo(recommended=False, experimentals=1, dailies=1, weeklies=1,
\* releases=1)
PlainConfig ==
    [experimentals |-> 1, dailies |-> 1, weeklies |-> 1, releases |-> 1,
     recommended |-> FALSE]

\* the repository of the cache scenarios
ScanTags == {"recommended", "w_2021_05"}

\* sequences over S of length at most n
RECURSIVE SeqsUpTo(_, _)
SeqsUpTo(S, n) ==
    IF n = 0 THEN {<<>>}
    ELSE LET shorter == SeqsUpTo(S, n - 1)
         IN  shorter \cup {Append(q, x) : q \in shorter, x \in S}

(***************************************************************************)
(* The cache file                                                          *)
(***************************************************************************)
\* One value of the JSON object: a dict with "hash" and "updated" (None:
\* the key is absent, null or ""), or something that is no dict.
CacheEntry(h, u) == [kind |-> "dict", hash |-> h, updated |-> u]

NonDictEntry == [kind |-> "other", hash |-> None, updated |-> <<>>]

FileOf(kind, entries) == [kind |-> kind, entries |-> entries]

\* Entries of a cache file: what a scanner wrote, and what it never wrote.
WellFormedEntries == {CacheEntry(h, Some(u)) : h \in Digests, u \in RegTimes}

OddEntries ==
    {NonDictEntry,
     CacheEntry(None, Some(TS(1, <<"0">>, "Z"))),
     CacheEntry("sha_a", <<>>),
     CacheEntry("sha_a", Some(TS(1, <<>>, "Z"))),
     CacheEntry("sha_a", Some(TS(1, <<"0", "5">>, ""))),
     CacheEntry("sha_a", Some(TS(1, <<"0", "5">>, "x")))}

\* The loop of _read_cachefile over the entries from index i on:
\* [raised, nm, rm].
RECURSIVE LoadEntries(_, _, _, _)
LoadEntries(entries, i, nmv, rmv) ==
    IF i > Len(entries) THEN [raised |-> None, nm |-> nmv, rm |-> rmv]
    ELSE LET tag == entries[i].tag
             e == entries[i].entry
         IN  IF e.kind # "dict"
             THEN [raised |-> "AttributeError", nm |-> nmv, rm |-> rmv]
             ELSE IF e.updated # <<>> /\ ~ConvertOk(e.updated[1])
             THEN [raised |-> "ValueError", nm |-> nmv, rm |-> rmv]
             ELSE IF e.hash = None \/ e.updated = <<>>
             THEN LoadEntries(entries, i + 1, nmv, rmv)
             ELSE LET updatedstr == e.updated[1]
                      updated == _convert_time(updatedstr)
                      nm1 == IF \/ ~DHas(nmv, tag)
                                \/ DtLess(DGet(nmv, tag).updated, updated)
                             THEN DPut(nmv, tag, [hash |-> e.hash, updated |-> updated])
                             ELSE nmv
                      fresh == [last_updated |-> updatedstr, hash |-> None]
                      rm1 == IF ~DHas(rmv, tag) THEN DPut(rmv, tag, fresh)
                             ELSE IF DtLess(_convert_time(DGet(rmv, tag).last_updated),
                                            updated)
                             THEN DPut(rmv, tag, fresh)
                             ELSE rmv
                  IN  LoadEntries(entries, i + 1, nm1, rm1)

\* _read_cachefile: a file that cannot be opened or decoded is logged and
\* skipped; what json.load returned is then read without a guard.
_read_cachefile(f) ==
    IF f.kind \in {"absent", "unreadable", "invalid"}
    THEN [raised |-> None, nm |-> EmptyDict, rm |-> EmptyDict]
    ELSE IF f.kind = "nonobject"
    THEN [raised |-> "AttributeError", nm |-> EmptyDict, rm |-> EmptyDict]
    ELSE LoadEntries(f.entries, 1, EmptyDict, EmptyDict)

\* _namemap_to_json: the tags that have a hash, keys sorted.
CacheJson(nmv, sorted) ==
    FileOf("object",
           [i \in 1..Len(sorted) |->
               [tag |-> sorted[i],
                entry |-> CacheEntry(DGet(nmv, sorted[i]).hash,
                                     Some(_serialize_datetime(
                                              DGet(nmv, sorted[i]).updated)))]])

\* sort_keys=True: a key goes before the keys it is less than.
KeyOrder(S) == [a \in S, b \in S |-> StrLess(Chars(a), Chars(b))]

_namemap_to_json(nmv, rmv) ==
    CacheJson(nmv,
              StableSortDesc(SelectSeq(nmv.keys, LAMBDA k : DGet(nmv, k).hash # None),
                             KeyOrder(Range(nmv.keys))))

(***************************************************************************)
(* scan(): the pure parts                                                  *)
(***************************************************************************)
\* A tag record of a listing page; the registry's id and full_size are
\* carried along unread and left out.
TagRecord(n, u) == [name |-> n, last_updated |-> u]

\* _update_results_map: rm[name].update(res) for each record in turn.
RECURSIVE _update_results_map(_, _)
_update_results_map(rmv, res) ==
    IF res = <<>> THEN rmv
    ELSE LET r == Head(res)
             old == IF DHas(rmv, r.name) THEN DGet(rmv, r.name).hash ELSE None
         IN  _update_results_map(
                 DPut(rmv, r.name, [last_updated |-> r.last_updated, hash |-> old]),
                 Tail(res))

\* A test that asks for no hash: it trusts the placeholder of a tag the
\* cache never held, which C2 rules out.
HaveManifest_NoHash(tstamp, cached) == DtLeq(tstamp, cached.updated)

\* The test that lets a tag keep its cached hash.
HaveManifest(tstamp, cached) == DtLeq(tstamp, cached.updated) /\ cached.hash # None

\* The first loop of _map_names_to_manifests over the keys of the results
\* map from index i on: [nm, rm, check_names].
RECURSIVE CheckLoop(_, _, _, _, _)
CheckLoop(keys, i, nmv, rmv, check) ==
    IF i > Len(keys) THEN [nm |-> nmv, rm |-> rmv, check_names |-> check]
    ELSE LET tag == keys[i]
             tstamp == _convert_time(DGet(rmv, tag).last_updated)
             nm1 == IF ~DHas(nmv, tag)
                    THEN DPut(nmv, tag, [hash |-> None, updated |-> tstamp])
                    ELSE nmv
         IN  IF HaveManifest(tstamp, DGet(nm1, tag))
             THEN CheckLoop(keys, i + 1, nm1,
                            DPut(rmv, tag, [DGet(rmv, tag) EXCEPT
                                               !.hash = DGet(nm1, tag).hash]),
                            check)
             ELSE CheckLoop(keys, i + 1, nm1, rmv, Append(check, tag))

\* The names of a listing in the order of their first occurrence: the keys
\* of reduced_results.
RECURSIVE FirstOccurrences(_, _)
FirstOccurrences(res, seen) ==
    IF res = <<>> THEN <<>>
    ELSE IF Head(res).name \in seen THEN FirstOccurrences(Tail(res), seen)
    ELSE <<Head(res).name>> \o FirstOccurrences(Tail(res), seen \cup {Head(res).name})

\* The list _reduce_results appends a name to.
Bucket(name) ==
    LET res == Chars(name)
    IN  IF StartsWith(res, <<"r">>) /\ ~StartsWith(res, S_recommended) THEN "r"
        ELSE IF StartsWith(res, <<"w">>) THEN "w"
        ELSE IF StartsWith(res, <<"d">>) THEN "d"
        ELSE IF StartsWith(res, S_exp) THEN "e"
        ELSE IF StartsWith(res, S_latest) THEN "l"
        ELSE IF StartsWith(res, S_recommended) THEN "c"
        ELSE "o"

BucketNames == {"r", "w", "d", "e", "l", "c", "o"}

\* imgorder: the lists that are sorted.
SortedBuckets(cfg) ==
    <<"l">> \o (IF cfg.recommended THEN <<"c">> ELSE <<>>) \o <<"e", "d", "w", "r">>

\* imap: the keys of data, in order, with the list and the count of each.
DisplayMap(cfg) ==
    (IF cfg.recommended THEN <<[key |-> "recommended", list |-> "c", count |-> 1]>>
     ELSE <<>>)
    \o <<[key |-> "experimental", list |-> "e", count |-> cfg.experimentals],
         [key |-> "daily", list |-> "d", count |-> cfg.dailies],
         [key |-> "weekly", list |-> "w", count |-> cfg.weeklies],
         [key |-> "release", list |-> "r", count |-> cfg.releases]>>

\* clist[:n]
Take(l, n) == SubSeq(l, 1, IF n < Len(l) THEN n ELSE Len(l))

RECURSIVE BuildData(_, _, _)
BuildData(imap, lists, acc) ==
    IF imap = <<>> THEN acc
    ELSE LET m == Head(imap)
         IN  BuildData(Tail(imap), lists,
                       IF m.count # 0
                       THEN DPut(acc, m.key, Take(lists[m.list], m.count))
                       ELSE acc)

\* _sort_tags_by_date: the (last_updated, name) pairs of the results map,
\* sorted in reverse as tuples of strings.
DateOrder(rmv) ==
    [a \in Range(rmv.keys), b \in Range(rmv.keys) |->
        \/ TsStrLess(DGet(rmv, b).last_updated, DGet(rmv, a).last_updated)
        \/ /\ DGet(rmv, b).last_updated = DGet(rmv, a).last_updated
           /\ StrLess(Chars(b), Chars(a))]

_sort_tags_by_date(rmv) == StableSortDesc(rmv.keys, DateOrder(rmv))

\* The candidate lists: the names of each list, in listing order.
Candidates(names) ==
    [b \in BucketNames |-> SelectSeq(names, LAMBDA n : Bucket(n) = b)]

\* The last record a listing has of a name: what reduced_results keeps.
LastRecord(res, n) ==
    res[CHOOSE i \in 1..Len(res) :
           res[i].name = n /\ \A j \in (i + 1)..Len(res) : res[j].name # n]

\* The entry _reduce_results makes of a name; _sort_images_by_name adds
\* the version (an Option) to the new-style entries of a list it sorts.
Entry(n, res, nmv, cfg) ==
    [name |-> n,
     description |-> _describe_tag(n, nmv).ld,
     updated |-> IF DHas(nmv, n) THEN DGet(nmv, n).updated
                 ELSE _convert_time(LastRecord(res, n).last_updated),
     hash |-> IF DHas(nmv, n) THEN DGet(nmv, n).hash ELSE None,
     semver |-> IF Bucket(n) \in Range(SortedBuckets(cfg)) /\ IsNewStyle(Chars(n))
                THEN Some(SemverOf(Chars(n))) ELSE <<>>]

\* _reduce_results when an exception leaves it: nothing is assigned.
ReduceRaised(exc, where) ==
    [raised |-> exc, where |-> where, data |-> EmptyDict, all_tags |-> <<>>,
     buckets |-> <<>>, sorted |-> <<>>]

\* _reduce_results from the sorting of the lists on.  What
\* _sort_images_by_name returns is bound to the loop variable only, so the
\* lists keep their listing order.
ReduceSorted(cand, srt, res, nmv, rmv, cfg) ==
    IF \E b \in DOMAIN srt : srt[b].raised # None
    THEN ReduceRaised("ValueError", "_sort_images_by_name")
    ELSE [raised |-> None,
          where |-> None,
          data |-> BuildData(DisplayMap(cfg),
                             [b \in BucketNames |->
                                 [i \in 1..Len(cand[b]) |-> Entry(cand[b][i], res, nmv, cfg)]],
                             EmptyDict),
          all_tags |-> _sort_tags_by_date(rmv),
          buckets |-> cand,
          sorted |-> [b \in DOMAIN srt |-> srt[b].ret]]

\* _reduce_results from the candidate lists on.
ReduceLists(cand, res, nmv, rmv, cfg) ==
    ReduceSorted(cand,
                 [b \in Range(SortedBuckets(cfg)) |-> _sort_images_by_name(cand[b])],
                 res, nmv, rmv, cfg)

\* _reduce_results over the names of the listing.
ReduceNames(names, res, nmv, rmv, cfg) ==
    IF \E n \in Range(names) : _describe_tag(n, nmv).raised # None
    THEN ReduceRaised("IndexError", "_describe_tag")
    ELSE ReduceLists(Candidates(names), res, nmv, rmv, cfg)

\* _reduce_results on the listing res:
\* [raised, where, data, all_tags, buckets, sorted].  buckets are the candidate
\* lists (names), sorted what _sort_images_by_name returned for each list
\* it was called on.
_reduce_results(res, nmv, rmv, cfg) ==
    ReduceNames(FirstOccurrences(res, {}), res, nmv, rmv, cfg)

(***************************************************************************)
(* What a caller reads of a scanner                                        *)
(***************************************************************************)
\* self.owner + "/" + self.name + ":" + tag
ImageRef(tag) == <<"owner", "/", "name", ":", tag>>

\* data[k], or nothing when data has no k.
DataList(d, k) == IF DHas(d, k) THEN DGet(d, k) ELSE <<>>

\* A display order with the releases ahead of the weeklies, which C12
\* rules out.
DisplayEntries_ReleaseFirst(d, cfg) ==
    (IF cfg.recommended THEN DataList(d, "recommended") ELSE <<>>)
    \o DataList(d, "experimental") \o DataList(d, "daily")
    \o DataList(d, "release") \o DataList(d, "weekly")

\* cs of extract_image_info: the entries of data in display order.
DisplayEntries(d, cfg) ==
    (IF cfg.recommended THEN DataList(d, "recommended") ELSE <<>>)
    \o DataList(d, "experimental") \o DataList(d, "daily")
    \o DataList(d, "weekly") \o DataList(d, "release")

\* extract_image_info from cs on: the references and the descriptions; an
\* entry without a description is described anew.
ImageInfo(cs, nmv) ==
    IF \E i \in 1..Len(cs) :
          cs[i].description = <<>> /\ _describe_tag(cs[i].name, nmv).raised # None
    THEN [call |-> "extract_image_info", raised |-> "IndexError", value |-> <<>>]
    ELSE [call |-> "extract_image_info", raised |-> None,
          value |-> [ls |-> [i \in 1..Len(cs) |-> ImageRef(cs[i].name)],
                     ldescs |-> [i \in 1..Len(cs) |->
                                    IF cs[i].description # <<>> THEN cs[i].description
                                    ELSE _describe_tag(cs[i].name, nmv).ld]]]

extract_image_info(d, nmv, cfg) == ImageInfo(DisplayEntries(d, cfg), nmv)

\* The name _sort_releases_by_name sorts a tag by: a name of four
\* characters is decorated with "zzz".
Decorated(tag) ==
    IF Len(Chars(tag)) = 4 THEN Chars(tag) \o <<"z", "z", "z">> ELSE Chars(tag)

DecoratedOrder(S) == [a \in S, b \in S |-> StrLess(Decorated(b), Decorated(a))]

\* _sort_releases_by_name on the names l: every name is looked up in the
\* dict of the decorated names after the sort, which holds the names of
\* four characters only.
_sort_releases_by_name(l) ==
    IF \E i \in 1..Len(l) :
          Decorated(l[i]) \notin {Decorated(l[j]) : j \in {k \in 1..Len(l) :
                                                             Len(Chars(l[k])) = 4}}
    THEN [call |-> "_sort_releases_by_name", raised |-> "KeyError", value |-> <<>>]
    ELSE [call |-> "_sort_releases_by_name", raised |-> None,
          value |-> StableSortDesc(l, DecoratedOrder(Range(l)))]

(***************************************************************************)
(* The scanner as a state machine.  One ScanRepo is constructed and then   *)
(* scanned; each request scan() makes is one step, its answer an input.    *)
(* The registry does not change while the scanner lives: what it answered  *)
(* once it answers again; only a failed request is a matter of the moment. *)
(***************************************************************************)
VARIABLES
    env,        \* the repository and the configuration: tags and times the
                \* registry can report, the bucket counts, whether a
                \* cachefile is configured
    reg,        \* the registry, as far as requests have disclosed it
    file,       \* the contents of the cache file
    pc,         \* "new", "idle", "ctor_raised", or the place in scan():
                \* "paging", "probe", "token", "fetch"
    budget,     \* scan() calls left
    data,       \* self.data
    results,    \* self._results (an Option: <<>> is None)
    rm,         \* self._results_map
    nm,         \* self._name_to_manifest
    all_tags,   \* self._all_tags
    loc,        \* the locals of the running scan()
    last,       \* what the current or last scan() did (history)
    prev,       \* what the scan() before it left (history)
    out         \* the last call made on the scanner since scan() returned,
                \* and what it returned (history)

VARIABLES
    images,     \* self.images
    nodes,      \* self.nodes
    pod_specs,  \* self.pod_specs
    main,       \* the place of the main thread: "ready", "built", "running"
                \* (inside run_pods, joining), "returned", "sweeping"
                \* (inside _destroy_pods), "timed_out" and "raised" (left by
                \* the RuntimeError of the alarm, by an ApiException)
    threads,    \* the thread of run_pods_for_node per node: its place, the
                \* index of its spec, its tries, the exception that ended
                \* it, and the calls it made on the API (history)
    pods,       \* the pods of the namespace
    grace,      \* whether the cluster keeps a pod that still runs for a
                \* while after it accepted its delete
    alarm,      \* signal.alarm(timeout): "off", "set" or "fired"
    sweep,      \* the _destroy_pods of the main thread: who called it, the
                \* cleanup list it still has to delete, its delete calls,
                \* and the calls of clean_completed_pods made and left
    faults      \* API calls that can still fail for a reason of the server

svars ==
    <<env, reg, file, pc, budget, data, results, rm, nm, all_tags, loc, last, prev, out>>

pvars == <<images, nodes, pod_specs, main, threads, pods, grace, alarm, sweep, faults>>

vars == <<svars, pvars>>

\* No _destroy_pods was called yet; clean_completed_pods can be called
\* cleans times.
NoSweep(cleans) ==
    [who |-> None, resume |-> None, cleanup |-> <<>>, log |-> <<>>, exc |-> None,
     listed |-> {}, due |-> {}, before |-> {}, cleans |-> cleans, calls |-> <<>>]

\* A process that makes no Prepuller.
NoPrepuller ==
    /\ images = <<>>
    /\ nodes = <<>>
    /\ pod_specs = EmptyDict
    /\ main = "none"
    /\ threads = <<>>
    /\ pods = {}
    /\ grace = FALSE
    /\ alarm = "off"
    /\ sweep = NoSweep(0)
    /\ faults = 0

NoLocals == [page |-> 0, acc |-> <<>>, check_names |-> <<>>, idx |-> 0]

NoScan ==
    [n |-> 0, status |-> "none", exc |-> None, where |-> None, url |-> None,
     pages |-> <<>>, listed |-> FALSE, checked |-> <<>>, probe |-> None,
     token |-> None, fetched |-> <<>>, failed |-> <<>>,
     reduced |-> FALSE, buckets |-> <<>>, sorted |-> <<>>]

NoPrev == [status |-> "none", results |-> <<>>, nm |-> EmptyDict]

NoCall == [call |-> None, raised |-> None, value |-> <<>>]

\* The files of the scenarios that scan: none, and caches of earlier scans.
ScanCacheFiles ==
    {FileOf("absent", <<>>),
     FileOf("object", <<[tag |-> "recommended",
                         entry |-> CacheEntry("sha_a", Some(TS(1, <<"0">>, "Z")))]>>),
     FileOf("object", <<[tag |-> "recommended",
                         entry |-> CacheEntry("sha_b", Some(TS(1, <<"0", "5">>, "Z")))]>>),
     FileOf("object", <<[tag |-> "recommended",
                         entry |-> CacheEntry("sha_a", Some(TS(1, <<"0", "5">>, "Z")))],
                        [tag |-> "w_2021_05",
                         entry |-> CacheEntry("sha_a", Some(TS(1, <<"0">>, "Z")))]>>)}

\* The files of the scenarios that construct only: unreadable, no JSON,
\* JSON that is no object, and objects of every kind of entry.
LoadCacheFiles ==
    {FileOf("absent", <<>>), FileOf("unreadable", <<>>), FileOf("invalid", <<>>),
     FileOf("nonobject", <<>>)}
    \cup {FileOf("object", <<[tag |-> "recommended", entry |-> e]>>) :
             e \in WellFormedEntries \cup OddEntries}

\* A registry nothing is known of yet.
Undisclosed(tags) ==
    [pages |-> <<>>, auth |-> None, token |-> None, digest |-> [t \in tags |-> None]]

\* The environments: a small repository scanned from a cache file; a cache
\* file of any kind that is loaded; a repository of every kind of tag name
\* behind a registry that wants a token and hands one out.
CacheEnv ==
    [tags |-> ScanTags, times |-> RegTimes, cfg |-> DefaultConfig, cachefile |-> TRUE,
     scans |-> MaxScans, pages |-> MaxPages]

LoadEnv == [CacheEnv EXCEPT !.scans = 0]

NamingEnv ==
    [tags |-> AllTags, times |-> {TS(1, <<"0", "5">>, "Z")}, cfg |-> DefaultConfig,
     cachefile |-> FALSE, scans |-> 1, pages |-> 2]

\* The same repository, scanned by a scanner that shows no recommended
\* image.
PlainEnv == [NamingEnv EXCEPT !.cfg = PlainConfig]

Scenarios ==
    {[env |-> CacheEnv, file |-> f, reg |-> Undisclosed(ScanTags)] : f \in ScanCacheFiles}
    \cup {[env |-> LoadEnv, file |-> f, reg |-> Undisclosed(ScanTags)] :
             f \in LoadCacheFiles}
    \cup {[env |-> e, file |-> FileOf("absent", <<>>),
           reg |-> [Undisclosed(AllTags) EXCEPT !.auth = "401", !.token = "token"]] :
             e \in {NamingEnv, PlainEnv}}

Init ==
    /\ \E s \in Scenarios : env = s.env /\ file = s.file /\ reg = s.reg
    /\ pc = "new"
    /\ budget = env.scans
    /\ data = EmptyDict
    /\ results = <<>>
    /\ rm = EmptyDict
    /\ nm = EmptyDict
    /\ all_tags = <<>>
    /\ loc = NoLocals
    /\ last = NoScan
    /\ prev = NoPrev
    /\ out = NoCall
    /\ NoPrepuller

\* ScanRepo(cachefile=...): __init__ reads the cache file when one is
\* configured; an exception of _read_cachefile leaves __init__.
Construct ==
    /\ pc = "new"
    /\ LET r == IF env.cachefile THEN _read_cachefile(file)
                ELSE [raised |-> None, nm |-> EmptyDict, rm |-> EmptyDict]
       IN  IF r.raised # None
           THEN /\ pc' = "ctor_raised"
                /\ last' = [last EXCEPT !.exc = r.raised, !.where = "_read_cachefile"]
                /\ UNCHANGED <<nm, rm>>
           ELSE /\ pc' = "idle"
                /\ nm' = r.nm
                /\ rm' = r.rm
                /\ UNCHANGED last
    /\ UNCHANGED <<pvars, env, out, reg, file, budget, data, results, all_tags, loc, prev>>

\* scan() is called: results = [], page = 1.
ScanStart ==
    /\ pc = "idle"
    /\ budget > 0
    /\ budget' = budget - 1
    /\ pc' = "paging"
    /\ loc' = [NoLocals EXCEPT !.page = 1]
    /\ prev' = [status |-> last.status, results |-> results, nm |-> nm]
    /\ last' = [NoScan EXCEPT !.n = last.n + 1, !.status = "running"]
    /\ out' = NoCall
    /\ UNCHANGED <<pvars, env, reg, file, data, results, rm, nm, all_tags>>

\* An exception leaves scan(): what was assigned so far stays.
Raise(note, exc, where) ==
    /\ pc' = "idle"
    /\ loc' = NoLocals
    /\ last' = [note EXCEPT !.status = "raised", !.exc = exc, !.where = where,
                            !.url = IF where = "listing" THEN "self.url" ELSE None]

\* The end of scan() from the end of _map_names_to_manifests on: the cache
\* file is written when write says so and a cachefile is configured (a
\* write that fails is logged and changes nothing else), then
\* _reduce_results builds data and the list of all tags.
Finish(nm1, rm1, write, note, red) ==
    /\ nm' = nm1
    /\ rm' = rm1
    /\ file' = IF write /\ env.cachefile THEN _namemap_to_json(nm1, rm1) ELSE file
    /\ pc' = "idle"
    /\ loc' = NoLocals
    /\ last' = [note EXCEPT !.reduced = TRUE,
                            !.buckets = red.buckets,
                            !.sorted = red.sorted,
                            !.status = IF red.raised # None THEN "raised" ELSE "returned",
                            !.exc = red.raised,
                            !.where = red.where]
    /\ data' = IF red.raised # None THEN data ELSE red.data
    /\ all_tags' = IF red.raised # None THEN all_tags ELSE red.all_tags

Complete(nm1, rm1, res, write, note) ==
    Finish(nm1, rm1, write, note, _reduce_results(res, nm1, rm1, env.cfg))

\* The answers to GET url?page=N that decode: at most one tag record and a
\* next cursor, which the last page the registry has lacks.
PageAnswers(page) ==
    {[results |-> r, next |-> x] :
        r \in SeqsUpTo({TagRecord(n, u) : n \in env.tags, u \in env.times}, 1),
        x \in IF page < env.pages THEN BOOLEAN ELSE {FALSE}}

\* A loop that keeps the records of the last page only, which C6 rules out.
Extended_Replace(acc, page) == page

\* results.extend(j["results"])
Extended(acc, page) == acc \o page

\* The first loop of _map_names_to_manifests over the results map rm1.
Checked(rm1) == CheckLoop(rm1.keys, 1, nm, rm1, <<>>)

\* What scan() does once the listing acc is complete: _update_results_map,
\* the first loop of _map_names_to_manifests (c), and, when no name is to
\* be checked, the rest of scan().
Listed(acc, c, note) ==
    /\ results' = Some(acc)
    /\ IF c.check_names = <<>>
       THEN Complete(c.nm, c.rm, acc, FALSE, [note EXCEPT !.listed = TRUE])
       ELSE /\ pc' = "probe"
            /\ loc' = [loc EXCEPT !.acc = acc, !.check_names = c.check_names]
            /\ nm' = c.nm
            /\ rm' = c.rm
            /\ last' = [note EXCEPT !.listed = TRUE, !.checked = c.check_names]
            /\ UNCHANGED <<file, data, all_tags>>

\* One pass of the while loop of scan() whose page is fetched and decoded.
FetchPageOk ==
    /\ pc = "paging"
    /\ \E j \in (IF loc.page <= Len(reg.pages) THEN {reg.pages[loc.page]}
                 ELSE PageAnswers(loc.page)) :
          /\ reg' = [reg EXCEPT !.pages = IF loc.page <= Len(@) THEN @ ELSE Append(@, j)]
          /\ IF j.next
             THEN /\ loc' = [loc EXCEPT !.acc = Extended(@, j.results), !.page = @ + 1]
                  /\ last' = [last EXCEPT !.pages = Append(@, j)]
                  /\ UNCHANGED <<pc, file, data, results, rm, nm, all_tags>>
             ELSE Listed(Extended(loc.acc, j.results),
                         Checked(_update_results_map(rm, Extended(loc.acc, j.results))),
                         [last EXCEPT !.pages = Append(@, j)])
    /\ UNCHANGED <<pvars, env, out, budget, prev>>

\* A scan() that stores what it has listed so far before it raises; what
\* C5 rules out.
FetchPageFail_Partial ==
    /\ pc = "paging"
    /\ \E kind \in {"request", "json"} : Raise(last, "ValueError", "listing")
    /\ rm' = _update_results_map(rm, loc.acc)
    /\ UNCHANGED <<pvars, env, out, reg, file, budget, data, results, nm, all_tags, prev>>

\* One pass of the while loop whose page cannot be fetched ("request") or
\* is no JSON ("json"): ValueError, raised before anything is assigned.
FetchPageFail ==
    /\ pc = "paging"
    /\ \E kind \in {"request", "json"} : Raise(last, "ValueError", "listing")
    /\ UNCHANGED <<pvars, env, out, reg, file, budget, data, results, rm, nm, all_tags, prev>>

\* The answers to HEAD manifests/recommended: 200; 401 with a Bearer
\* challenge naming realm, service and scope; 401 with a Bearer challenge
\* that lacks one of them; any other answer, which yields no token (another
\* status, or a 401 whose challenge is not Bearer).
ProbeAnswers == {"200", "401", "401nofields", "other"}

\* HEAD manifests/recommended is answered.
Probe ==
    /\ pc = "probe"
    /\ \E a \in (IF reg.auth # None THEN {reg.auth} ELSE ProbeAnswers) :
          /\ reg' = [reg EXCEPT !.auth = a]
          /\ IF a = "401"
             THEN /\ pc' = "token"
                  /\ last' = [last EXCEPT !.probe = a]
                  /\ UNCHANGED <<file, data, rm, nm, all_tags, loc>>
             ELSE Complete(nm, rm, loc.acc, a # "401nofields", [last EXCEPT !.probe = a])
    /\ UNCHANGED <<pvars, env, out, budget, results, prev>>

\* The answers of the realm endpoint: a token, or JSON without one.
TokenAnswers == {"token", "notoken"}

\* The realm endpoint answers.
TokenExchange ==
    /\ pc = "token"
    /\ \E a \in (IF reg.token # None THEN {reg.token} ELSE TokenAnswers) :
          /\ reg' = [reg EXCEPT !.token = a]
          /\ IF a = "token"
             THEN /\ pc' = "fetch"
                  /\ loc' = [loc EXCEPT !.idx = 1]
                  /\ last' = [last EXCEPT !.token = a]
                  /\ UNCHANGED <<file, data, rm, nm, all_tags>>
             ELSE Complete(nm, rm, loc.acc, TRUE, [last EXCEPT !.token = a])
    /\ UNCHANGED <<pvars, env, out, budget, results, prev>>

\* A request of _map_names_to_manifests raises, or its answer lacks what
\* is read from it: requests.head or requests.get fails, the body of the
\* token answer is no JSON, a header is missing.  The exception leaves
\* scan().
RequestFails ==
    /\ pc \in {"probe", "token", "fetch"}
    /\ \E exc \in {"RequestException", "KeyError"} :
          Raise([last EXCEPT !.fetched = IF pc = "fetch"
                                         THEN Append(@, loc.check_names[loc.idx]) ELSE @,
                             !.failed = IF pc = "fetch"
                                        THEN Some(loc.check_names[loc.idx]) ELSE @],
                exc, IF pc = "fetch" THEN "manifest" ELSE pc)
    /\ UNCHANGED <<pvars, env, out, reg, file, budget, data, results, rm, nm, all_tags, prev>>

\* namemap and results after the hash a of name is stored.
WithHash(m, name, a) == DPut(m, name, [DGet(m, name) EXCEPT !.hash = a])

\* namemap after the lines that follow the loop: the updated time of name,
\* the last of check_names, becomes its last_updated.
WithUpdated(m, name, rmv) ==
    DPut(m, name,
         [DGet(m, name) EXCEPT !.updated = _convert_time(DGet(rmv, name).last_updated)])

\* One pass of the loop over check_names whose answer carries a
\* Docker-Content-Digest.  After the last name come the lines that follow
\* the loop and the rest of scan().
FetchManifest ==
    /\ pc = "fetch"
    /\ \E a \in (IF reg.digest[loc.check_names[loc.idx]] # None
                 THEN {reg.digest[loc.check_names[loc.idx]]} ELSE Digests) :
          /\ reg' = [reg EXCEPT !.digest[loc.check_names[loc.idx]] = a]
          /\ IF loc.idx < Len(loc.check_names)
             THEN /\ nm' = WithHash(nm, loc.check_names[loc.idx], a)
                  /\ rm' = WithHash(rm, loc.check_names[loc.idx], a)
                  /\ loc' = [loc EXCEPT !.idx = @ + 1]
                  /\ last' = [last EXCEPT !.fetched = Append(@, loc.check_names[loc.idx])]
                  /\ UNCHANGED <<pc, file, data, all_tags>>
             ELSE Complete(WithUpdated(WithHash(nm, loc.check_names[loc.idx], a),
                                       loc.check_names[loc.idx],
                                       WithHash(rm, loc.check_names[loc.idx], a)),
                           WithHash(rm, loc.check_names[loc.idx], a),
                           loc.acc, TRUE,
                           [last EXCEPT !.fetched = Append(@, loc.check_names[loc.idx])])
    /\ UNCHANGED <<pvars, env, out, budget, results, prev>>

\* extract_image_info() is called after a scan() that returned.
ExtractImageInfo ==
    /\ pc = "idle"
    /\ last.status = "returned"
    /\ out' = extract_image_info(data, nm, env.cfg)
    /\ UNCHANGED <<pvars, env, reg, file, pc, budget, data, results, rm, nm, all_tags, loc,
                   last, prev>>

\* get_all_tags() is called after a scan() that returned.
GetAllTags ==
    /\ pc = "idle"
    /\ last.status = "returned"
    /\ out' = [call |-> "get_all_tags", raised |-> None, value |-> all_tags]
    /\ UNCHANGED <<pvars, env, reg, file, pc, budget, data, results, rm, nm, all_tags, loc,
                   last, prev>>

\* _sort_releases_by_name is called on a list of the release tags the
\* scan() has found; scan() itself does not call it.
SortReleases ==
    /\ pc = "idle"
    /\ last.status = "returned"
    /\ out' = _sort_releases_by_name(last.buckets["r"])
    /\ UNCHANGED <<pvars, env, reg, file, pc, budget, data, results, rm, nm, all_tags, loc,
                   last, prev>>

Next ==
    \/ Construct
    \/ ScanStart
    \/ FetchPageOk
    \/ FetchPageFail
    \/ Probe
    \/ TokenExchange
    \/ RequestFails
    \/ FetchManifest
    \/ ExtractImageInfo
    \/ GetAllTags
    \/ SortReleases

Spec == Init /\ [][Next]_vars

\* scan() runs on: while it lists, a pass of its loop is taken.
FairSpec == Spec /\ WF_vars(FetchPageFail \/ FetchPageOk)

(***************************************************************************)
(* The prepuller (prepuller/prepuller.py, class Prepuller)                 *)
(***************************************************************************)
\* s.replace(a, b) for one-character a and b
Replace(s, a, b) == [i \in 1..Len(s) |-> IF s[i] = a THEN b ELSE s[i]]

\* l[-2:]
LastTwo(l) == IF Len(l) <= 2 THEN l ELSE SubSeq(l, Len(l) - 1, Len(l))

\* '-'.join(img.split('/')[-2:]) with ':' and '_' replaced by '-'
_podname_from_image(img) ==
    Replace(Replace(Join(LastTwo(Split(img, "/")), "-"), ":", "-"), "_", "-")

\* What the prepuller reads of a V1PodSpec: the image and the name of its
\* one container, and node_name.
_build_pod_spec(img, node) ==
    [image |-> img, name |-> _podname_from_image(img), node_name |-> node]

\* "pp-" + the name from the image + "-" + node_name.split('-')[-1]
_derive_pod_name(spec) ==
    <<"p", "p", "-">> \o _podname_from_image(spec.image) \o <<"-">>
    \o Split(spec.node_name, "-")[Len(Split(spec.node_name, "-"))]

\* The dict build_pod_specs fills: per node, in the order of self.nodes,
\* a spec per image in the order of self.images.
RECURSIVE BuildSpecs(_, _, _)
BuildSpecs(ns, imgs, specs) ==
    IF ns = <<>> THEN specs
    ELSE BuildSpecs(Tail(ns), imgs,
                    DPut(specs, Head(ns),
                         [i \in 1..Len(imgs) |-> _build_pod_spec(imgs[i], Head(ns))]))

\* Specs per node in the reverse of the order of the images.
build_pod_specs_Reversed(ns, imgs) ==
    BuildSpecs(ns, [i \in 1..Len(imgs) |-> imgs[Len(imgs) + 1 - i]], EmptyDict)

build_pod_specs(ns, imgs) == BuildSpecs(ns, imgs, EmptyDict)

\* list(set(l)) followed by l.sort(): the strings of S in ascending order.
RECURSIVE SortedList(_)
SortedList(S) ==
    IF S = {} THEN <<>>
    ELSE LET least == CHOOSE x \in S : \A y \in S \ {x} : StrLess(x, y)
         IN  <<least>> \o SortedList(S \ {least})

\* Bounds: max_tries of wait_for_pod (3600 in the source, scaled down), and
\* the API calls of a run that fail for a reason of the server.
max_tries == 2

MaxFaults == 1

\* Images and nodes.  Two of the images differ in '-' against '_' only,
\* two of the nodes in what precedes their last '-' only.
Img_d_1 == <<"o", "/", "n", ":", "d", "_", "1">>

Img_d1 == <<"o", "/", "n", ":", "d", "-", "1">>

Img_w_1 == <<"o", "/", "n", ":", "w", "_", "1">>

Node_a1 == <<"a", "-", "1">>

Node_b1 == <<"b", "-", "1">>

Node_a2 == <<"a", "-", "2">>

AllNodes == {Node_a1, Node_b1, Node_a2}

Phases == {"Pending", "Running", "Succeeded", "Failed"}

Terminal == {"Failed", "Succeeded"}

\* A pod of the namespace: ours is whether this run created it.
Pod(name, phase, spec, ours) ==
    [name |-> name, phase |-> phase, image |-> spec.image,
     node_name |-> spec.node_name, ours |-> ours, terminating |-> FALSE]

\* The namespaces a run can meet: an empty one, and one that a pod of an
\* earlier run with a name of this run is left in.
LeftOver(img, node) ==
    Pod(_derive_pod_name(_build_pod_spec(img, node)), "Succeeded",
        _build_pod_spec(img, node), FALSE)

\* A pod of somebody else, under a name no spec derives.
Unrelated ==
    [name |-> <<"x">>, phase |-> "Succeeded", image |-> <<"x">>,
     node_name |-> Node_a1, ours |-> FALSE, terminating |-> FALSE]

\* Bound: the calls of clean_completed_pods a caller makes.
MaxCleans == 2

\* What a run starts from, after update_images_from_repo and
\* build_nodelist: the images sorted and without duplicates, the
\* schedulable nodes in the order list_node names them; whether
\* args.timeout >= 0 has set the alarm; and the calls of
\* clean_completed_pods its caller makes.
Worlds ==
    {[images |-> SortedList({Img_d_1, Img_w_1}), nodes |-> <<Node_a1, Node_a2>>,
      pods |-> {}, grace |-> FALSE, faults |-> MaxFaults, alarm |-> "off",
      cleans |-> 0],
     [images |-> SortedList({Img_d_1, Img_d1}), nodes |-> <<Node_a1>>,
      pods |-> {}, grace |-> TRUE, faults |-> 0, alarm |-> "off",
      cleans |-> MaxCleans],
     [images |-> SortedList({Img_d_1}), nodes |-> <<Node_a1, Node_b1>>,
      pods |-> {}, grace |-> TRUE, faults |-> 0, alarm |-> "set", cleans |-> 0],
     [images |-> SortedList({Img_d_1, Img_w_1}), nodes |-> <<Node_a1>>,
      pods |-> {LeftOver(Img_w_1, Node_a1), Unrelated}, grace |-> FALSE,
      faults |-> 0, alarm |-> "off", cleans |-> MaxCleans],
     [images |-> SortedList({Img_d_1, Img_w_1}), nodes |-> <<Node_a1>>,
      pods |-> {}, grace |-> FALSE, faults |-> 0, alarm |-> "set", cleans |-> 0],
     [images |-> <<>>, nodes |-> <<Node_a1>>, pods |-> {}, grace |-> FALSE,
      faults |-> 0, alarm |-> "off", cleans |-> 0]}

\* A process that makes no ScanRepo.
NoScanner ==
    /\ env = LoadEnv
    /\ file = FileOf("absent", <<>>)
    /\ reg = Undisclosed(ScanTags)
    /\ pc = "none"
    /\ budget = 0
    /\ data = EmptyDict
    /\ results = <<>>
    /\ rm = EmptyDict
    /\ nm = EmptyDict
    /\ all_tags = <<>>
    /\ loc = NoLocals
    /\ last = NoScan
    /\ prev = NoPrev
    /\ out = NoCall

PrepullInit ==
    /\ NoScanner
    /\ \E w \in Worlds :
          /\ images = w.images
          /\ nodes = w.nodes
          /\ pods = w.pods
          /\ grace = w.grace
          /\ faults = w.faults
          /\ alarm = w.alarm
          /\ sweep = NoSweep(w.cleans)
    /\ pod_specs = EmptyDict
    /\ main = "ready"
    /\ threads = <<>>

\* build_pod_specs()
BuildPodSpecs ==
    /\ main = "ready"
    /\ pod_specs' = build_pod_specs(nodes, images)
    /\ main' = "built"
    /\ UNCHANGED <<svars, images, nodes, threads, pods, grace, alarm, sweep, faults>>

\* The place of a thread before the i-th spec of its list, with the name
\* start_single_pod derives for it: the loop of run_pods_for_node ends
\* after the last one.
AtSpec(t, i) ==
    [t EXCEPT !.i = i, !.tries = 0,
              !.at = IF i > Len(t.speclist) THEN "done" ELSE "start",
              !.podname = IF i > Len(t.speclist) THEN None
                          ELSE _derive_pod_name(t.speclist[i])]

NewThread(speclist) ==
    AtSpec([at |-> "start", i |-> 1, podname |-> None, tries |-> 0, exc |-> None,
            log |-> <<>>, speclist |-> speclist], 1)

\* run_pods() up to its joins: one thread per node of pod_specs, each on a
\* copy of the node's list, all started.
RunPods ==
    /\ main = "built"
    /\ threads' = [n \in Range(pod_specs.keys) |-> NewThread(DGet(pod_specs, n))]
    /\ main' = "running"
    /\ UNCHANGED <<svars, images, nodes, pod_specs, pods, grace, alarm, sweep, faults>>

\* A run_pods() that returns without its joins.
RunPodsReturn_NoJoin ==
    /\ main = "running"
    /\ main' = "returned"
    /\ UNCHANGED <<svars, images, nodes, pod_specs, threads, pods, grace, alarm, sweep,
                   faults>>

\* run_pods() returns when every thread is joined.
RunPodsReturn ==
    /\ main = "running"
    /\ \A n \in DOMAIN threads : threads[n].at \in {"done", "died"}
    /\ main' = "returned"
    /\ UNCHANGED <<svars, images, nodes, pod_specs, threads, pods, grace, alarm, sweep, faults>>

Exists(name) == \E p \in pods : p.name = name

ThePod(name) == CHOOSE p \in pods : p.name = name

\* An answer of the API server that no state of the namespace explains.
ServerFault == IF faults > 0 THEN {"500"} ELSE {}

\* An API that answers no create once a thread has died.
CreateAnswers_Halted(name) ==
    IF \E n \in DOMAIN threads : threads[n].at = "died" THEN {}
    ELSE IF Exists(name) THEN {"409"} ELSE {"ok"} \cup ServerFault

\* create_namespaced_pod: 409 when a pod of the name exists.
CreateAnswers(name) == IF Exists(name) THEN {"409"} ELSE {"ok"} \cup ServerFault

\* read_namespaced_pod: the phase of the pod, 404 when there is none.
ReadAnswers(name) ==
    IF Exists(name) THEN {ThePod(name).phase} \cup ServerFault ELSE {"404"}

\* delete_namespaced_pod: 404 when there is none.
DeleteAnswers(name) == IF Exists(name) THEN {"ok"} \cup ServerFault ELSE {"404"}

Spent(a) == IF a = "500" THEN faults - 1 ELSE faults

\* A call of a thread on the API, as its log keeps it.
Call(op, t, a) ==
    [call |-> op, job |-> t.i, name |-> t.podname, answer |-> a]

\* An exception leaves run_pods_for_node and ends the thread.
Died(t, exc) == [t EXCEPT !.at = "died", !.exc = exc]

Logged(t, op, a) == [t EXCEPT !.log = Append(t.log, Call(op, t, a))]

\* start_single_pod(spec) in the thread of node n: the pod is created
\* under its derived name; wait_for_pod starts with tries = 1.  The
\* ApiException of a refused create is not caught.
StartSinglePod(n) ==
    /\ n \in DOMAIN threads
    /\ threads[n].at = "start"
    /\ \E a \in CreateAnswers(threads[n].podname) :
          /\ threads' = [threads EXCEPT ![n] =
                IF a = "ok"
                THEN [Logged(@, "create", a) EXCEPT !.at = "read", !.tries = 1]
                ELSE Died(Logged(@, "create", a), "ApiException")]
          /\ pods' = IF a = "ok"
                     THEN pods \cup {Pod(threads[n].podname, "Pending",
                                         threads[n].speclist[threads[n].i], TRUE)}
                     ELSE pods
          /\ faults' = Spent(a)
    /\ UNCHANGED <<svars, images, nodes, pod_specs, main, grace, alarm, sweep>>

\* A wait_for_pod that sends a Failed pod back to start_single_pod.
AfterRead_RetryFailed(t, a) ==
    IF a \in {"404", "500"} THEN Died(t, "ApiException")
    ELSE IF a = "Failed" THEN [t EXCEPT !.at = "start"]
    ELSE IF a = "Succeeded" THEN [t EXCEPT !.at = "delete"]
    ELSE IF t.tries >= max_tries THEN Died(t, "RuntimeError")
    ELSE [t EXCEPT !.tries = t.tries + 1]

\* A wait_for_pod without the test of tries against max_tries.
AfterRead_Unbounded(t, a) ==
    IF a \in {"404", "500"} THEN Died(t, "ApiException")
    ELSE IF a \in Terminal THEN [t EXCEPT !.at = "delete"]
    ELSE [t EXCEPT !.tries = t.tries + 1]

\* The thread after a read of wait_for_pod that answered a: on to the
\* delete for a terminal phase, RuntimeError when the tries are used up,
\* else sleep and one more try.
AfterRead(t, a) ==
    IF a \in {"404", "500"} THEN Died(t, "ApiException")
    ELSE IF a \in Terminal THEN [t EXCEPT !.at = "delete"]
    ELSE IF t.tries >= max_tries THEN Died(t, "RuntimeError")
    ELSE [t EXCEPT !.tries = t.tries + 1]

\* One pass of the loop of wait_for_pod(podname) in the thread of node n:
\* the pod is read.
WaitForPod(n) ==
    /\ n \in DOMAIN threads
    /\ threads[n].at = "read"
    /\ \E a \in ReadAnswers(threads[n].podname) :
          /\ threads' = [threads EXCEPT ![n] = AfterRead(Logged(@, "read", a), a)]
          /\ faults' = Spent(a)
    /\ UNCHANGED <<svars, images, nodes, pod_specs, main, pods, grace, alarm, sweep>>

\* A cluster that keeps for a while also the pods that have come to an
\* end.
Terminating_Lingering(name) ==
    IF grace
    THEN {IF p.name = name THEN [p EXCEPT !.terminating = TRUE] ELSE p : p \in pods}
    ELSE {p \in pods : p.name # name}

\* The namespace after a delete of the pod of a name is accepted: the pod
\* is gone, or, in a cluster with a grace period, a pod that has not come
\* to an end is terminating and there until the cluster removes it.
Terminating(name) ==
    IF grace
    THEN {IF p.name = name THEN [p EXCEPT !.terminating = TRUE] ELSE p :
             p \in {q \in pods : q.name # name \/ q.phase \notin Terminal}}
    ELSE {p \in pods : p.name # name}

\* delete_pod(podname) at the end of wait_for_pod in the thread of node n,
\* and the return to the loop of run_pods_for_node.  The ApiException of
\* a refused delete is not caught.
DeletePod(n) ==
    /\ n \in DOMAIN threads
    /\ threads[n].at = "delete"
    /\ \E a \in DeleteAnswers(threads[n].podname) :
          /\ threads' = [threads EXCEPT ![n] =
                IF a = "ok"
                THEN AtSpec(Logged(@, "delete", a), @.i + 1)
                ELSE Died(Logged(@, "delete", a), "ApiException")]
          /\ pods' = IF a = "ok"
                     THEN Terminating(threads[n].podname)
                     ELSE pods
          /\ faults' = Spent(a)
    /\ UNCHANGED <<svars, images, nodes, pod_specs, main, grace, alarm, sweep>>

\* The names _get_deletion_list derives from the specs of pod_specs.
SpecNames ==
    {_derive_pod_name(x) :
        x \in UNION {Range(DGet(pod_specs, n)) : n \in Range(pod_specs.keys)}}

\* A _get_deletion_list that does not look at the names.
Picked_AnyName(selective) == {p \in pods : selective => p.phase \in Terminal}

\* The pods _get_deletion_list picks from the list of the namespace: those
\* with a name of the specs, for a selective list only in a terminal phase.
Picked(selective) ==
    {p \in pods : p.name \in SpecNames /\ (selective => p.phase \in Terminal)}

\* _get_deletion_list(selective): the names picked, in the order of the
\* list of the namespace (by name).
_get_deletion_list(selective) == SortedList({p.name : p \in Picked(selective)})

\* list_namespaced_pod
ListAnswers == {"ok"} \cup ServerFault

\* The names the threads have made a create call for and no delete call
\* that was accepted.
DueNames ==
    UNION {{threads[n].log[k].name : k \in
               {c \in 1..Len(threads[n].log) :
                   /\ threads[n].log[c].call = "create"
                   /\ ~\E d \in 1..Len(threads[n].log) :
                         /\ threads[n].log[d].call = "delete"
                         /\ threads[n].log[d].answer = "ok"
                         /\ threads[n].log[d].job = threads[n].log[c].job}} :
           n \in DOMAIN threads}

\* _destroy_pods(selective) up to its first delete: the list is fetched.
BeginSweep(who, selective, a) ==
    [sweep EXCEPT !.who = who, !.resume = main, !.log = <<>>,
                  !.exc = IF a = "ok" THEN None ELSE "ApiException",
                  !.cleanup = IF a = "ok" THEN _get_deletion_list(selective) ELSE <<>>,
                  !.listed = IF a = "ok" THEN Picked(selective) ELSE {},
                  !.due = IF who = "timeout" THEN DueNames ELSE {},
                  !.before = pods,
                  !.cleans = IF who = "clean" THEN @ - 1 ELSE @]

\* What a call of clean_completed_pods did, for the record.
CallRecord(sw, after) ==
    [listed |-> sw.listed, log |-> sw.log, exc |-> sw.exc, before |-> sw.before,
     after |-> after]

\* Whether _destroy_pods is at its end: it raised or its list is done.
AtEnd(sw) == sw.exc # None \/ sw.cleanup = <<>>

\* The sweep after a step of it, the namespace being after: at its end a
\* call of clean_completed_pods goes on record.
Settled(sw, after) ==
    IF AtEnd(sw) /\ sw.who = "clean"
    THEN [sw EXCEPT !.calls = Append(@, CallRecord(sw, after))]
    ELSE sw

\* Where the main thread is after a step of _destroy_pods: an ApiException
\* leaves it; at the end of the list _timeout_handler raises
\* RuntimeError("Timed out") and clean_completed_pods returns.
MainAfter(sw) ==
    IF sw.exc # None THEN "raised"
    ELSE IF sw.cleanup # <<>> THEN "sweeping"
    ELSE IF sw.who = "timeout" THEN "timed_out"
    ELSE sw.resume

\* SIGALRM: _timeout_handler runs in the main thread, wherever that is,
\* and starts _destroy_pods(selective=False).  The threads run on.
Alarm ==
    /\ alarm = "set"
    /\ main \in {"ready", "built", "running", "returned"}
    /\ alarm' = "fired"
    /\ \E a \in ListAnswers :
          /\ sweep' = Settled(BeginSweep("timeout", FALSE, a), pods)
          /\ main' = MainAfter(BeginSweep("timeout", FALSE, a))
          /\ faults' = Spent(a)
    /\ UNCHANGED <<svars, images, nodes, pod_specs, threads, pods, grace>>

\* clean_completed_pods(), called before or after run_pods: it starts
\* _destroy_pods(selective=True).
CleanCompletedPods ==
    /\ main \in {"built", "returned"}
    /\ sweep.cleans > 0
    /\ \E a \in ListAnswers :
          /\ sweep' = Settled(BeginSweep("clean", TRUE, a), pods)
          /\ main' = MainAfter(BeginSweep("clean", TRUE, a))
          /\ faults' = Spent(a)
    /\ UNCHANGED <<svars, images, nodes, pod_specs, threads, pods, grace, alarm>>

\* The sweep after delete_pod of the head of its list answered a.  The
\* ApiException of a refused delete is not caught.
Deleted(sw, a) ==
    [sw EXCEPT !.log = Append(@, [name |-> Head(sw.cleanup), answer |-> a]),
               !.cleanup = Tail(@),
               !.exc = IF a = "ok" THEN None ELSE "ApiException"]

\* The loop of _destroy_pods: delete_pod(podname) for the next name of the
\* cleanup list.
SweepDelete ==
    /\ main = "sweeping"
    /\ \E a \in DeleteAnswers(Head(sweep.cleanup)) :
          /\ pods' = IF a = "ok" THEN Terminating(Head(sweep.cleanup)) ELSE pods
          /\ sweep' = Settled(Deleted(sweep, a),
                              IF a = "ok" THEN Terminating(Head(sweep.cleanup)) ELSE pods)
          /\ main' = MainAfter(Deleted(sweep, a))
          /\ faults' = Spent(a)
    /\ UNCHANGED <<svars, images, nodes, pod_specs, threads, grace, alarm>>

\* The cluster runs a pod: Pending, Running, then Succeeded or Failed.
Kubelet ==
    /\ \E p \in pods : \E ph \in Phases :
          /\ ~p.terminating
          /\ \/ p.phase = "Pending" /\ ph = "Running"
             \/ p.phase = "Running" /\ ph \in Terminal
          /\ pods' = (pods \ {p}) \cup {[p EXCEPT !.phase = ph]}
    /\ UNCHANGED <<svars, images, nodes, pod_specs, main, threads, grace, alarm, sweep, faults>>

\* The cluster removes a pod whose delete it accepted.
PodRemoved ==
    /\ \E p \in pods : p.terminating /\ pods' = pods \ {p}
    /\ UNCHANGED <<svars, images, nodes, pod_specs, main, threads, grace, alarm, sweep, faults>>

PrepullNext ==
    \/ BuildPodSpecs
    \/ RunPods
    \/ \E n \in AllNodes : StartSinglePod(n)
    \/ \E n \in AllNodes : WaitForPod(n)
    \/ \E n \in AllNodes : DeletePod(n)
    \/ RunPodsReturn
    \/ Alarm
    \/ CleanCompletedPods
    \/ SweepDelete
    \/ Kubelet
    \/ PodRemoved

PrepullSpec == PrepullInit /\ [][PrepullNext]_vars

\* A step of the thread of node n.
ThreadStep(n) == StartSinglePod(n) \/ WaitForPod(n) \/ DeletePod(n)

\* A thread that has a call to make is scheduled in the end, and the API
\* answers its call.
FairPrepullSpec == PrepullSpec /\ \A n \in AllNodes : WF_vars(ThreadStep(n))

(***************************************************************************)
(* Properties                                                              *)
(***************************************************************************)
\* The records of the pages, in page order.
RECURSIVE ConcatPages(_)
ConcatPages(ps) ==
    IF ps = <<>> THEN <<>> ELSE Head(ps).results \o ConcatPages(Tail(ps))

Names(res) == {res[i].name : i \in 1..Len(res)}

\* The tags the running or last scan() has listed.
ListedNames == Names(ConcatPages(last.pages))

\* The last_updated the registry reports of a listed tag.
Reported(t) == LastRecord(ConcatPages(last.pages), t).last_updated

\* C1: with the registry unchanged between two scan() calls that both
\* return, the second issues no manifest fetch and leaves every listed tag
\* the digest the first left it.
C1_IdempotentCacheReuse ==
    (last.n >= 2 /\ prev.status = "returned") =>
        /\ last.fetched = <<>>
        /\ last.status = "returned" =>
              \A t \in ListedNames : DGet(nm, t).hash = DGet(prev.nm, t).hash

\* The cache as scan() found it holds a digest of t that is no older than
\* what the registry reports.
CacheCurrent(t) ==
    /\ DHas(prev.nm, t)
    /\ DGet(prev.nm, t).hash # None
    /\ DtLeq(_convert_time(Reported(t)), DGet(prev.nm, t).updated)

\* C2: a listed tag is kept off the list of tags to fetch exactly when the
\* cache as scan() found it holds a digest of it with an updated time not
\* older than the last_updated the registry reports; only tags on the list
\* are fetched.
C2_TrustTest ==
    /\ last.listed => \A t \in ListedNames :
                         (t \notin Range(last.checked)) <=> CacheCurrent(t)
    /\ Range(last.fetched) \subseteq Range(last.checked)

\* A scan that kept one cached digest and put a tag on the list whose
\* cached digest is older than the registry's record.
C2_Witness ==
    /\ last.listed
    /\ \E t \in ListedNames : t \notin Range(last.checked)
    /\ \E t \in ListedNames :
          /\ t \in Range(last.checked)
          /\ DHas(prev.nm, t)
          /\ DGet(prev.nm, t).hash # None

\* C3: a scan() whose requests all succeed, the probe answered 200 or
\* answered 401 with a token handed out, has fetched every tag it put on
\* the list and left it a digest.
C3_FetchesEveryListedTag ==
    (/\ last.status = "returned"
     /\ \/ last.probe = "200"
        \/ last.probe = "401" /\ last.token = "token") =>
        \A t \in Range(last.checked) :
            t \in Range(last.fetched) /\ DGet(nm, t).hash # None

\* C4: a manifest fetch that fails does not end scan(): the tag keeps no
\* digest, the other tags on the list are tried, and scan() returns with
\* its buckets built.
C4_ManifestFailureNotFatal ==
    (last.failed # <<>> /\ pc = "idle") =>
        /\ last.status = "returned"
        /\ last.reduced
        /\ DGet(nm, last.failed[1]).hash = None
        /\ Len(last.fetched) = Len(last.checked)

\* C5: while scan() lists, data, the list of all tags, the results map
\* and the name-to-digest cache stay as the call found them, and a page
\* that fails ends scan() with a ValueError that names the URL, these four
\* still unchanged.
C5_ListingFailureLeavesState ==
    [][/\ pc' = "paging" => UNCHANGED <<data, all_tags, rm, nm>>
       /\ (pc = "paging" /\ pc' # "paging" /\ ~last'.listed) =>
             /\ last'.status = "raised"
             /\ last'.exc = "ValueError"
             /\ last'.url = "self.url"
             /\ UNCHANGED <<data, all_tags, rm, nm>>]_vars

\* A listing that failed after a page with a record was fetched, in a
\* scanner that had a results map.
C5_Witness ==
    /\ last.status = "raised"
    /\ last.where = "listing"
    /\ Len(last.pages) >= 1
    /\ last.pages[1].results # <<>>
    /\ rm # EmptyDict
    /\ last.pages[1].results[1].name \notin Range(rm.keys)

\* What C6 says of a state: while scan() lists, every page so far had a
\* next cursor, the page asked for is the one after them and the records
\* held are theirs in page order; once it has listed, only the last page
\* lacked the cursor, the records are those of all pages in page order,
\* and a scan() that returns has put exactly their tags in its lists.
PagesInOrder ==
    /\ pc = "paging" =>
          /\ loc.page = Len(last.pages) + 1
          /\ loc.acc = ConcatPages(last.pages)
          /\ \A i \in 1..Len(last.pages) : last.pages[i].next
    /\ last.listed =>
          /\ results = Some(ConcatPages(last.pages))
          /\ \A i \in 1..Len(last.pages) : last.pages[i].next <=> i < Len(last.pages)
          /\ last.status = "returned" =>
                UNION {Range(last.buckets[b]) : b \in BucketNames} = ListedNames

\* C6: scan() asks for page after page until one lacks the next cursor,
\* processes the records of all these pages in page order, and a listing
\* in progress comes to an end.
C6_Pagination == [](PagesInOrder) /\ (pc = "paging" ~> pc # "paging")

\* A scan() that listed two pages with a record each.
C6_Witness ==
    /\ last.listed
    /\ Len(last.pages) = 2
    /\ last.pages[1].results # <<>>
    /\ last.pages[2].results # <<>>
    /\ last.pages[1].results # last.pages[2].results

\* C7: the constructor does not raise, whatever the cache file holds.
C7_ConstructorNeverFails == pc # "ctor_raised"

\* The list the grammar gives a name, by its first rule that matches:
\* recommended* and latest* are aliases (the lists c and l), then r, w, d,
\* then exp_ or the legacy e, and o for the rest.
GrammarBucket(name) ==
    IF StartsWith(Chars(name), S_recommended) THEN "c"
    ELSE IF StartsWith(Chars(name), S_latest) THEN "l"
    ELSE IF StartsWith(Chars(name), <<"r">>) THEN "r"
    ELSE IF StartsWith(Chars(name), <<"w">>) THEN "w"
    ELSE IF StartsWith(Chars(name), <<"d">>) THEN "d"
    ELSE IF StartsWith(Chars(name), <<"e">>) THEN "e"
    ELSE "o"

\* C8: after a scan() that returns, every listed tag is once in the list
\* the grammar gives it and in no other.
C8_ExactlyOneBucket ==
    (last.status = "returned" /\ last.reduced) =>
        \A t \in ListedNames : \A b \in BucketNames :
            Cardinality({i \in 1..Len(last.buckets[b]) : last.buckets[b][i] = t})
                = IF b = GrammarBucket(t) THEN 1 ELSE 0

\* Names that fit no rule of the grammar: a type prefix with too few
\* components, one character, the empty name.
Malformed == {"w_2021", "r_", "r", "x", ""}

\* C9: describing a tag does not raise, and a scan() that returns has put
\* every malformed tag in the list o, its description the raw name.
C9_DescribeNeverRaises ==
    /\ last.where # "_describe_tag"
    /\ last.status = "returned" =>
          \A t \in ListedNames \cap Malformed :
              /\ t \in Range(last.buckets["o"])
              /\ _describe_tag(t, nm) = Described(Chars(t))

\* l is in name order: new-style names before old-style ones, the former
\* by descending version, the latter by descending name.
IsNameSorted(l) ==
    \A i, j \in 1..Len(l) :
        i < j =>
            /\ IsNewStyle(Chars(l[i])) \/ ~IsNewStyle(Chars(l[j]))
            /\ (IsNewStyle(Chars(l[i])) /\ IsNewStyle(Chars(l[j]))) =>
                  ~SemverGt(SemverOf(Chars(l[j])), SemverOf(Chars(l[i])))
            /\ (~IsNewStyle(Chars(l[i])) /\ ~IsNewStyle(Chars(l[j]))) =>
                  ~NameGt(l[j], l[i])

\* C10: for every list a scan() that returns had sorted by name, the sort
\* returned a list, not None: the names of the list, in name order.
C10_SortReturnsMergedList ==
    (last.status = "returned" /\ last.reduced) =>
        \A b \in DOMAIN last.sorted :
            /\ last.sorted[b] # <<>>
            /\ Range(last.sorted[b][1]) = Range(last.buckets[b])
            /\ IsNameSorted(last.sorted[b][1])

\* a goes strictly before b in the name order of a list.
NameBefore(a, b) ==
    \/ IsNewStyle(Chars(a)) /\ ~IsNewStyle(Chars(b))
    \/ /\ IsNewStyle(Chars(a)) /\ IsNewStyle(Chars(b))
       /\ SemverGt(SemverOf(Chars(a)), SemverOf(Chars(b)))
    \/ /\ ~IsNewStyle(Chars(a)) /\ ~IsNewStyle(Chars(b))
       /\ NameGt(a, b)

\* The configured count of a key of data, and the list it is cut from.
CountOf(k) ==
    CASE k = "recommended" -> 1
      [] k = "experimental" -> env.cfg.experimentals
      [] k = "daily" -> env.cfg.dailies
      [] k = "weekly" -> env.cfg.weeklies
      [] k = "release" -> env.cfg.releases

ListOf(k) ==
    CASE k = "recommended" -> "c"
      [] k = "experimental" -> "e"
      [] k = "daily" -> "d"
      [] k = "weekly" -> "w"
      [] k = "release" -> "r"

\* The names of the entries of data[k].
DataNames(k) == [i \in 1..Len(DGet(data, k)) |-> DGet(data, k)[i].name]

\* l holds the first n of the list b in name order, in that order.
IsNewestOf(l, b, n) ==
    /\ Len(l) = (IF Len(b) < n THEN Len(b) ELSE n)
    /\ Range(l) \subseteq Range(b)
    /\ \A i, j \in 1..Len(l) : i < j => ~NameBefore(l[j], l[i])
    /\ \A kept \in Range(l) : \A dropped \in Range(b) \ Range(l) :
          ~NameBefore(dropped, kept)

\* C11: after a scan() that returns, every list of data holds at most its
\* configured count of entries, and they are the first of its candidate
\* list in name order (newest first), in that order.
C11_CappedNewestFirst ==
    last.status = "returned" =>
        \A k \in Range(data.keys) :
            /\ Len(DataNames(k)) <= CountOf(k)
            /\ IsNewestOf(DataNames(k), last.buckets[ListOf(k)], CountOf(k))

\* The place of a tag in the display order, by the list the grammar gives
\* it (0: it is not displayed).
DisplayRank(tag) ==
    CASE GrammarBucket(tag) = "c" -> 1
      [] GrammarBucket(tag) = "e" -> 2
      [] GrammarBucket(tag) = "d" -> 3
      [] GrammarBucket(tag) = "w" -> 4
      [] GrammarBucket(tag) = "r" -> 5
      [] OTHER -> 0

\* C12: extract_image_info() returns references and descriptions of equal
\* length, the i-th description that of the i-th reference's tag, in the
\* order recommended (if enabled), experimental, daily, weekly, release,
\* with no latest* and no unclassified tag among them.
C12_DisplayOrder ==
    out.call = "extract_image_info" =>
        /\ out.raised = None
        /\ Len(out.value.ls) = Len(out.value.ldescs)
        /\ \A i \in 1..Len(out.value.ls) :
              /\ out.value.ls[i] = ImageRef(out.value.ls[i][5])
              /\ out.value.ldescs[i] = _describe_tag(out.value.ls[i][5], nm).ld
              /\ DisplayRank(out.value.ls[i][5]) # 0
              /\ DisplayRank(out.value.ls[i][5]) = 1 => env.cfg.recommended
        /\ \A i, j \in 1..Len(out.value.ls) :
              i < j => DisplayRank(out.value.ls[i][5]) <= DisplayRank(out.value.ls[j][5])

\* extract_image_info() returned tags of two lists.
C12_Witness ==
    /\ out.call = "extract_image_info"
    /\ Len(out.value.ls) = 2
    /\ DisplayRank(out.value.ls[1][5]) = 4
    /\ DisplayRank(out.value.ls[2][5]) = 5

\* The aliases among the tags.
Aliases == {t \in AllTags : IsAlias(Chars(t))}

\* C13: whatever the cache holds, resolve_tag of an alias returns None or
\* a tag that is no alias, is not the alias itself and has the digest of
\* the alias, which is not empty; it returns None only when the alias has
\* no digest or no tag that is no alias has its digest.
C13_AliasResolution ==
    \A a \in Aliases :
        /\ resolve_tag(a, nm) # None =>
              /\ ~IsAlias(Chars(resolve_tag(a, nm)))
              /\ resolve_tag(a, nm) # a
              /\ DHas(nm, a) /\ DHas(nm, resolve_tag(a, nm))
              /\ DGet(nm, a).hash # None
              /\ DGet(nm, resolve_tag(a, nm)).hash = DGet(nm, a).hash
        /\ resolve_tag(a, nm) = None =>
              \/ ~DHas(nm, a)
              \/ DGet(nm, a).hash = None
              \/ \A k \in Range(nm.keys) :
                    IsAlias(Chars(k)) \/ DGet(nm, k).hash # DGet(nm, a).hash

\* A cache in which an alias resolves to a tag.
C13_Witness ==
    \E a \in Aliases :
        /\ DHas(nm, a) /\ DGet(nm, a).hash # None
        /\ resolve_tag(a, nm) \notin {None, a}

\* In l no release tag of four characters comes after a tag that
\* continues its name (its release candidate).
ReleaseNotAfterCandidate(l) ==
    \A i, j \in 1..Len(l) :
        (i < j /\ Len(Chars(l[j])) = 4 /\ l[i] # l[j]) =>
            ~StartsWith(Chars(l[i]), Chars(l[j]))

\* C14: sorting release tags completes without error, and in what
\* _sort_releases_by_name returns and in the list the name sort builds of
\* the release tags, a release does not come after its release candidate.
C14_ReleaseBeforeCandidate ==
    /\ out.call = "_sort_releases_by_name" =>
          out.raised = None /\ ReleaseNotAfterCandidate(out.value)
    /\ last.status = "returned" =>
          /\ _sort_images_by_name(last.buckets["r"]).raised = None
          /\ ReleaseNotAfterCandidate(_sort_images_by_name(last.buckets["r"]).merged)

\* The time of the last_updated the scanner knows of a tag.
KnownTime(t) == _convert_time(DGet(rm, t).last_updated)

\* C15: get_all_tags() after a scan() returns every tag the scanner knows
\* once, a tag never before one with a later last_updated.
C15_AllTagsNewestFirst ==
    out.call = "get_all_tags" =>
        /\ Range(out.value) = Range(rm.keys)
        /\ Len(out.value) = Cardinality(Range(rm.keys))
        /\ \A i, j \in 1..Len(out.value) :
              i < j => ~DtLess(KnownTime(out.value[i]), KnownTime(out.value[j]))

\* The places in a log of the calls op of a job.
CallsOf(log, op, job) ==
    {k \in 1..Len(log) : log[k].call = op /\ log[k].job = job}

\* The jobs of a thread: the indices of its list of specs.
Jobs(n) == 1..Len(threads[n].speclist)

\* In the log of the thread of node n a delete follows a create of its job
\* that was accepted and, at once, a read of its job that answered a
\* terminal phase; no job has two deletes or two creates; and a read that
\* answered Succeeded or Failed is followed by the delete or has the
\* thread on its way to it.
JobOrder(n) ==
    /\ \A k \in 1..Len(threads[n].log) :
          threads[n].log[k].call = "delete" =>
              /\ \E j \in 1..(k - 1) :
                    /\ threads[n].log[j].call = "create"
                    /\ threads[n].log[j].answer = "ok"
                    /\ threads[n].log[j].job = threads[n].log[k].job
              /\ k > 1
              /\ threads[n].log[k - 1].call = "read"
              /\ threads[n].log[k - 1].job = threads[n].log[k].job
              /\ threads[n].log[k - 1].answer \in Terminal
    /\ \A k \in 1..Len(threads[n].log) :
          (threads[n].log[k].call = "read" /\ threads[n].log[k].answer \in Terminal) =>
              IF k = Len(threads[n].log)
              THEN threads[n].at = "delete" /\ threads[n].i = threads[n].log[k].job
              ELSE /\ threads[n].log[k + 1].call = "delete"
                   /\ threads[n].log[k + 1].job = threads[n].log[k].job
    /\ \A j \in Jobs(n) :
          /\ Cardinality(CallsOf(threads[n].log, "delete", j)) <= 1
          /\ Cardinality(CallsOf(threads[n].log, "create", j)) <= 1

\* C16: a thread deletes a pod only after it created it and read a
\* terminal phase of it, once, after Succeeded as after Failed, and creates
\* no pod twice; a thread that has read a terminal phase goes on to call
\* the delete.
C16_JobLifecycle ==
    /\ [](\A n \in DOMAIN threads : JobOrder(n))
    /\ []<>(\A n \in DOMAIN threads : threads[n].at # "delete")

\* A thread has deleted a pod that failed and a pod that succeeded.
C16_Witness ==
    \E n \in DOMAIN threads : \E j, k \in 1..Len(threads[n].log) :
        /\ threads[n].log[j].call = "read" /\ threads[n].log[j].answer = "Failed"
        /\ threads[n].log[k].call = "read" /\ threads[n].log[k].answer = "Succeeded"
        /\ Cardinality({d \in 1..Len(threads[n].log) :
                           threads[n].log[d].call = "delete"
                           /\ threads[n].log[d].answer = "ok"}) = 2

\* The reads of wait_for_pod for a job of a thread are at most max_tries;
\* a thread is ended by RuntimeError exactly when max_tries reads of its
\* job have all answered a phase that is not terminal.
BoundedPolling(n) ==
    /\ threads[n].tries <= max_tries
    /\ \A j \in Jobs(n) :
          Cardinality(CallsOf(threads[n].log, "read", j)) <= max_tries
    /\ threads[n].exc = "RuntimeError" <=>
          /\ threads[n].i \in Jobs(n)
          /\ Cardinality(CallsOf(threads[n].log, "read", threads[n].i)) = max_tries
          /\ \A k \in CallsOf(threads[n].log, "read", threads[n].i) :
                threads[n].log[k].answer \in Phases \ Terminal

\* C17: wait_for_pod reads the pod at most max_tries times, raises
\* RuntimeError when none of max_tries reads answered a terminal phase,
\* and comes to an end.
C17_WaitTerminates ==
    /\ [](\A n \in DOMAIN threads : BoundedPolling(n))
    /\ []<>(\A n \in DOMAIN threads : threads[n].at # "read")

\* A wait_for_pod has ended in RuntimeError.
C17_Witness ==
    \E n \in DOMAIN threads :
        threads[n].at = "died" /\ threads[n].exc = "RuntimeError"

\* C18: when run_pods has returned, the pod of a job whose wait_for_pod
\* ended in RuntimeError has got a delete call and is not in the
\* namespace.
C18_StuckPodDeleted ==
    main = "returned" =>
        \A n \in DOMAIN threads :
            threads[n].exc = "RuntimeError" =>
                /\ CallsOf(threads[n].log, "delete", threads[n].i) # {}
                /\ ~Exists(threads[n].podname)

\* The creates of a log, in the order they were made.
Creates(log) == SelectSeq(log, LAMBDA c : c.call = "create")

\* The pods of this run on a node that no delete was accepted for.
LivePods(n) == {p \in pods : p.ours /\ p.node_name = n /\ ~p.terminating}

\* The thread of node n creates the pods of its node in the order of
\* self.images, each once, and all of them when it ends without an
\* exception; at most one pod it created has no accepted delete.
Serialized(n) ==
    /\ Cardinality(LivePods(n)) <= 1
    /\ Len(SelectSeq(threads[n].log, LAMBDA c : c.call = "create" /\ c.answer = "ok"))
       - Len(SelectSeq(threads[n].log, LAMBDA c : c.call = "delete" /\ c.answer = "ok"))
       \in {0, 1}
    /\ Len(Creates(threads[n].log)) <= Len(images)
    /\ \A k \in 1..Len(Creates(threads[n].log)) :
          /\ Creates(threads[n].log)[k].job = k
          /\ Creates(threads[n].log)[k].name =
                _derive_pod_name(_build_pod_spec(images[k], n))
    /\ threads[n].at = "done" => Len(Creates(threads[n].log)) = Len(images)

\* C19: per node the pods are created one after the other in the order of
\* the images, one per image, with at most one of them not deleted at any
\* time; and every node of self.nodes has a thread of its own.
C19_SerialPerNode ==
    main \in {"running", "returned"} =>
        /\ DOMAIN threads = Range(nodes)
        /\ \A n \in DOMAIN threads : Serialized(n)

\* The threads of two nodes run side by side: both have a pod in the
\* namespace, one of them the pod of its second image while the other
\* still polls the pod of its first.
C19_Witness ==
    \E n, m \in DOMAIN threads :
        /\ n # m
        /\ threads[n].at = "read" /\ threads[n].i = 2
        /\ threads[m].at = "read" /\ threads[m].i = 1
        /\ LivePods(n) # {} /\ LivePods(m) # {}

\* The specs of a run.
AllSpecs == UNION {Range(DGet(pod_specs, n)) : n \in Range(pod_specs.keys)}

\* C20: the namespace holds at most one pod per image and node, and two
\* specs of a run with different image or node have different pod names.
C20_OneNamePerPair ==
    /\ \A p, q \in pods :
          (p.image = q.image /\ p.node_name = q.node_name) => p = q
    /\ \A x, y \in AllSpecs :
          (x.image # y.image \/ x.node_name # y.node_name) =>
              _derive_pod_name(x) # _derive_pod_name(y)

\* The last call of a log that is not empty.
LastCall(log) == log[Len(log)]

\* C21: a create that is answered 409 does not end the thread, which goes
\* on to read the pod; a delete that is answered 404 ends neither the
\* thread nor the _destroy_pods that made it.
C21_IdempotencyCodesAbsorbed ==
    /\ \A n \in DOMAIN threads :
          /\ (threads[n].log # <<>> /\ LastCall(threads[n].log).call = "create"
              /\ LastCall(threads[n].log).answer = "409") => threads[n].at = "read"
          /\ (threads[n].log # <<>> /\ LastCall(threads[n].log).call = "delete"
              /\ LastCall(threads[n].log).answer = "404") => threads[n].at # "died"
    /\ (sweep.log # <<>> /\ LastCall(sweep.log).answer = "404") => sweep.exc = None

\* What ends the thread of node n is a call of its own: one that the API
\* refused, or the last of max_tries reads of its pod; and a thread at the
\* end of run_pods_for_node has created and deleted a pod per spec.
OwnEnd(n) ==
    /\ threads[n].at = "died" =>
          /\ threads[n].log # <<>>
          /\ LastCall(threads[n].log).job = threads[n].i
          /\ IF threads[n].exc = "RuntimeError"
             THEN /\ LastCall(threads[n].log).call = "read"
                  /\ LastCall(threads[n].log).answer \in Phases \ Terminal
             ELSE LastCall(threads[n].log).answer \in {"404", "409", "500"}
    /\ threads[n].at = "done" =>
          \A j \in Jobs(n) :
              /\ \E k \in CallsOf(threads[n].log, "create", j) :
                    threads[n].log[k].answer = "ok"
              /\ \E k \in CallsOf(threads[n].log, "delete", j) :
                    threads[n].log[k].answer = "ok"

C23_WorkerErrorPropagates ==
    main = "returned" => \A n \in DOMAIN threads : threads[n].at # "died"

\* C24: when run_pods() has returned, every node of pod_specs had its
\* thread and every thread is at its end: none has a call left to make.
C24_RunPodsBarrier ==
    main = "returned" =>
        /\ DOMAIN threads = Range(pod_specs.keys)
        /\ \A n \in DOMAIN threads : threads[n].at \in {"done", "died"}

\* run_pods() has returned from the threads of two nodes that both made
\* calls, with no alarm fired.
C24_Witness ==
    /\ main = "returned"
    /\ alarm # "fired"
    /\ Cardinality(DOMAIN threads) = 2
    /\ \A n \in DOMAIN threads : Len(threads[n].log) >= 3

\* C25: when _timeout_handler has ended, every name the threads had made
\* a create call for and no accepted delete when the alarm fired has got a
\* delete call of the handler, and the handler has left the main thread
\* with its RuntimeError("Timed out").
C25_TimeoutSweepsEveryPod ==
    (sweep.who = "timeout" /\ main # "sweeping") =>
        /\ main = "timed_out"
        /\ \A name \in sweep.due :
              \E k \in 1..Len(sweep.log) : sweep.log[k].name = name

\* C26: once _timeout_handler has deleted its list and raised, no thread
\* creates another pod: the namespace gets no pod under a new name.
C26_NoSubmitAfterTimeout ==
    [][main = "timed_out" => {p.name : p \in pods'} \subseteq {p.name : p \in pods}]_vars

\* The pods of a namespace that clean_completed_pods is to delete: in a
\* terminal phase and under a name of the specs.
Completed(ns) == {p \in ns : p.phase \in Terminal /\ p.name \in SpecNames}

\* The names a call of clean_completed_pods made a delete call for.
DeletedNames(c) == {c.log[k].name : k \in 1..Len(c.log)}

\* A call of clean_completed_pods made its delete calls for pods that
\* were completed when it began, one each; one that returned made one for
\* each of them; and the pods that were not completed are still there.
CleansCompleted(c) ==
    /\ DeletedNames(c) \subseteq {p.name : p \in Completed(c.before)}
    /\ Cardinality(DeletedNames(c)) = Len(c.log)
    /\ c.exc = None => DeletedNames(c) = {p.name : p \in Completed(c.before)}
    /\ \A p \in c.before \ Completed(c.before) :
          ~p.terminating => \E q \in c.after : q.name = p.name

\* C27: clean_completed_pods() makes a delete call for every pod of the
\* namespace that is Succeeded or Failed and has a name derived from the
\* specs, and for no other pod.
C27_CleanOnlyCompleted ==
    \A i \in 1..Len(sweep.calls) : CleansCompleted(sweep.calls[i])

\* A call of clean_completed_pods has deleted a pod and has left a pod of
\* somebody else and a pod of the specs that is not completed.
C27_Witness ==
    \E i \in 1..Len(sweep.calls) :
        /\ sweep.calls[i].exc = None
        /\ sweep.calls[i].log # <<>>
        /\ Unrelated \in sweep.calls[i].before
        /\ Unrelated \in sweep.calls[i].after
        /\ \E p \in sweep.calls[i].before :
              p.name \in SpecNames /\ p.phase \notin Terminal

\* From the beginning of the call c to the beginning of the call d no pod
\* has come into the namespace and no pod has changed its phase.
InARow(c, d) ==
    \A q \in d.before :
        /\ \E p \in c.before : p.name = q.name /\ p.phase = q.phase
        /\ \E p \in c.after : p.name = q.name

\* C28: a call of clean_completed_pods() that follows one that returned,
\* with no new pod and no change of phase since that one began, makes no
\* delete call, raises nothing and leaves the namespace as it was.
C28_SecondCleanIsNoOp ==
    \A i \in 1..(Len(sweep.calls) - 1) :
        (sweep.calls[i].exc = None /\ InARow(sweep.calls[i], sweep.calls[i + 1])) =>
            /\ sweep.calls[i + 1].log = <<>>
            /\ sweep.calls[i + 1].exc = None
            /\ sweep.calls[i + 1].after = sweep.calls[i + 1].before

\* A call that deleted a pod was followed by a second call in a row.
C28_Witness ==
    /\ Len(sweep.calls) = 2
    /\ sweep.calls[1].exc = None
    /\ sweep.calls[1].log # <<>>
    /\ InARow(sweep.calls[1], sweep.calls[2])
    /\ sweep.calls[2].before # {}

\* C29: for every list a scan() that returns had sorted by name, the list
\* the name sort built holds every name of its input exactly once, also
\* when two new-style names of the list have the same version.
C29_SortIsPermutation ==
    (last.status = "returned" /\ last.reduced) =>
        \A b \in DOMAIN last.sorted :
            LET built == _sort_images_by_name(last.buckets[b])
            IN  /\ built.raised = None
                /\ Len(built.merged) = Len(last.buckets[b])
                /\ Range(built.merged) = Range(last.buckets[b])

\* C30: when the cache file holds what _namemap_to_json makes of the cache
\* a scan() left, a new ScanRepo reads it without an exception and has,
\* for every tag with a digest, the digest and the time that were written.
C30_CacheRoundTrips ==
    (pc = "idle" /\ env.cachefile /\ file = _namemap_to_json(nm, rm)) =>
        LET back == _read_cachefile(file)
        IN  /\ back.raised = None
            /\ \A t \in Range(nm.keys) :
                   DGet(nm, t).hash # None =>
                       /\ DHas(back.nm, t)
                       /\ DGet(back.nm, t).hash = DGet(nm, t).hash
                       /\ DGet(back.nm, t).updated = DGet(nm, t).updated

====
